---------------------------- MODULE Spec2Model ----------------------------
(***************************************************************************)
(* State-machine model of the recipe chatbot's RAG pipeline:               *)
(*   - chatbot/rag.py                          (index, retrieve, generate, *)
(*                                              fallback, get_rag_response)*)
(*   - chatbot/management/commands/index_recipes.py   (Command.handle)     *)
(*                                                                         *)
(* Text is a sequence of one-character strings.  The Chroma collection is  *)
(* a sequence of entries in insertion order.  The embedding and the        *)
(* generation backends are external services: every call on them either    *)
(* returns or raises, chosen nondeterministically.                         *)
(***************************************************************************)
EXTENDS Integers, Sequences, FiniteSets, TLC

VARIABLES
    geminiKey,      \* GEMINI_API_KEY / GOOGLE_API_KEY is set
    openaiKey,      \* OPENAI_API_KEY is set
    genaiInstalled, \* the google-genai package can be imported
    dirExists,      \* os.path.isdir(persist_dir)
    corpus,         \* Recipe table: pk -> row
    collExists,     \* the collection named recipe_docs exists
    nextPk,         \* pk the next created Recipe row gets
    index,          \* entries of the collection, in insertion order
    q,              \* one get_rag_response call
    ix,             \* one run of the index_recipes command
    prev,           \* the last finished index_recipes run, and whether the
                    \* table was edited since that run read it
    edits,          \* number of rows modified or deleted so far
    unit,           \* one direct call of retrieve_relevant_recipes,
                    \* fallback_answer or an answer generator
    view,           \* one request to ChatAPIView.post
    chats,          \* ChatHistory table, rows in creation order
    q2              \* a second get_rag_response call, in another thread

vars == <<geminiKey, openaiKey, genaiInstalled, dirExists, corpus, collExists,
          nextPk, index, q, ix, prev, edits, unit, view, chats, q2>>

----------------------------------------------------------------------------
(* Bounds *)

MaxRecipes == 2
MaxEdits == 1
MaxUnitRecipes == 6   \* rows of the table in the direct calls of one function
MaxChats == 2         \* ChatHistory rows created in one behaviour

----------------------------------------------------------------------------
(* Text helpers *)

\* sep.join(parts)
RECURSIVE Join(_, _)
Join(parts, sep) ==
    IF parts = <<>> THEN <<>>
    ELSE IF Len(parts) = 1 THEN parts[1]
    ELSE parts[1] \o sep \o Join(Tail(parts), sep)

\* s[:n]
Take(s, n) == IF Len(s) <= n THEN s ELSE SubSeq(s, 1, n)

Digit(d) == CASE d = 0 -> "0" [] d = 1 -> "1" [] d = 2 -> "2" [] d = 3 -> "3"
              [] d = 4 -> "4" [] d = 5 -> "5" [] d = 6 -> "6" [] d = 7 -> "7"
              [] d = 8 -> "8" [] d = 9 -> "9"

DigitVal(c) == CASE c = "0" -> 0 [] c = "1" -> 1 [] c = "2" -> 2 [] c = "3" -> 3
                 [] c = "4" -> 4 [] c = "5" -> 5 [] c = "6" -> 6 [] c = "7" -> 7
                 [] c = "8" -> 8 [] c = "9" -> 9

\* str(n) for a natural number
RECURSIVE Str(_)
Str(n) == IF n < 10 THEN <<Digit(n)>> ELSE Str(n \div 10) \o <<Digit(n % 10)>>

\* int(s) for a string of decimal digits
RECURSIVE Int10(_)
Int10(s) ==
    IF Len(s) = 1 THEN DigitVal(s[1])
    ELSE 10 * Int10(SubSeq(s, 1, Len(s) - 1)) + DigitVal(s[Len(s)])

IsSpace(c) == c \in {" ", "\n", "\t"}

\* s.strip()
RECURSIVE LStrip(_)
LStrip(s) == IF s /= <<>> /\ IsSpace(Head(s)) THEN LStrip(Tail(s)) ELSE s

RECURSIVE RStrip(_)
RStrip(s) ==
    IF s /= <<>> /\ IsSpace(s[Len(s)]) THEN RStrip(SubSeq(s, 1, Len(s) - 1)) ELSE s

Strip(s) == RStrip(LStrip(s))

\* s.split(): the maximal runs of non-whitespace characters, in order
RECURSIVE SplitFrom(_, _)
SplitFrom(s, cur) ==
    IF s = <<>> THEN (IF cur = <<>> THEN <<>> ELSE <<cur>>)
    ELSE IF IsSpace(Head(s))
         THEN (IF cur = <<>> THEN <<>> ELSE <<cur>>) \o SplitFrom(Tail(s), <<>>)
         ELSE SplitFrom(Tail(s), Append(cur, Head(s)))

Split(s) == SplitFrom(s, <<>>)

LowerChar(c) == CASE c = "P" -> "p" [] c = "S" -> "s" [] c = "T" -> "t"
                  [] c = "B" -> "b" [] c = "M" -> "m" [] c = "A" -> "a"
                  [] c = "E" -> "e" [] c = "K" -> "k" [] c = "L" -> "l"
                  [] c = "O" -> "o" [] OTHER -> c

Lower(s) == [i \in 1..Len(s) |-> LowerChar(s[i])]

\* needle in haystack (substring)
Contains(hay, needle) ==
    \E i \in 1..(Len(hay) - Len(needle) + 1) :
        SubSeq(hay, i, i + Len(needle) - 1) = needle

\* field__icontains=w
IContains(field, w) == Contains(Lower(field), Lower(w))

----------------------------------------------------------------------------
(* Program constants *)

SnippetLimit == 300   \* doc[:300]
TitleLimit == 200     \* recipe.title[:200]
TopN == 5             \* retrieve_relevant_recipes(..., n=5)
MaxWords == 5         \* fallback_answer: [...][:5] on the words
MinWordLen == 2       \* fallback_answer: len(w.strip()) > 2
MaxMatches == 5       \* fallback_answer: .distinct()[:5]

----------------------------------------------------------------------------
(* The Recipe table *)

RowPie ==
    [title |-> <<"P","i","e">>,
     description |-> <<"t","o","m","a","t","o">>,
     difficulty |-> <<"e","a","s","y">>,
     prep_time |-> 5, cook_time |-> 10, servings |-> 2,
     instructions |-> <<"B","a","k","e">>,
     ingredients |-> << [quantity |-> <<"2">>, name |-> <<"e","g","g">>] >>,
     category |-> << <<"M","a","i","n">> >>]

RowSoup ==
    [title |-> <<"S","o","u","p">>,
     description |-> <<"b","a","s","i","l">>,
     difficulty |-> <<"h","a","r","d">>,
     prep_time |-> 12, cook_time |-> 0, servings |-> 4,
     instructions |-> <<"m","i","x"," ","T","o","m","a","t","o">>,
     ingredients |-> <<>>,
     category |-> <<>>]

RowTea ==
    [title |-> <<"T","e","a">>,
     description |-> <<>>,
     difficulty |-> <<"e","a","s","y">>,
     prep_time |-> 1, cook_time |-> 3, servings |-> 1,
     instructions |-> <<"b","o","i","l">>,
     ingredients |-> << [quantity |-> <<"1">>, name |-> <<"b","a","g">>],
                        [quantity |-> <<"2">>, name |-> <<"m","l">>] >>,
     category |-> <<>>]

RowPool == {RowPie, RowSoup, RowTea}

\* the row a new recipe is created with
NewRow(pk) == CASE pk % 3 = 1 -> RowPie [] pk % 3 = 2 -> RowSoup [] OTHER -> RowTea

Pks == DOMAIN corpus

\* the pks of a set, largest first: Meta.ordering = ["-created_at"] and rows
\* are created in pk order
RECURSIVE Descending(_)
Descending(S) ==
    IF S = {} THEN <<>>
    ELSE LET m == CHOOSE x \in S : \A y \in S : y <= x
         IN <<m>> \o Descending(S \ {m})

\* list(RecipeModel.objects.select_related(...).prefetch_related(...))
AllRecipes(c) == Descending(DOMAIN c)

----------------------------------------------------------------------------
(* Document Builder: _get_recipe_document *)

IngPart(ri) == ri.quantity \o <<" ">> \o ri.name

_get_recipe_document(recipe) ==
    LET parts ==
            << <<"T","i","t","l","e",":"," ">> \o recipe.title,
               <<"D","e","s","c","r","i","p","t","i","o","n",":"," ">>
                   \o recipe.description,
               <<"D","i","f","f","i","c","u","l","t","y",":"," ">>
                   \o recipe.difficulty,
               <<"P","r","e","p"," ","t","i","m","e",":"," ">>
                   \o Str(recipe.prep_time)
                   \o <<" ","m","i","n","u","t","e","s","."," ",
                        "C","o","o","k"," ","t","i","m","e",":"," ">>
                   \o Str(recipe.cook_time)
                   \o <<" ","m","i","n","u","t","e","s",".">>,
               <<"S","e","r","v","i","n","g","s",":"," ">>
                   \o Str(recipe.servings),
               <<"I","n","s","t","r","u","c","t","i","o","n","s",":"," ">>
                   \o recipe.instructions >>
        ing_parts == [i \in 1..Len(recipe.ingredients) |->
                          IngPart(recipe.ingredients[i])]
        withIng ==
            IF ing_parts /= <<>>
            THEN Append(parts,
                        <<"I","n","g","r","e","d","i","e","n","t","s",":"," ">>
                            \o Join(ing_parts, <<","," ">>))
            ELSE parts
        withCat ==
            IF recipe.category /= <<>>
            THEN Append(withIng,
                        <<"C","a","t","e","g","o","r","y",":"," ">>
                            \o recipe.category[1])
            ELSE withIng
    IN Join(withCat, <<"\n">>)

----------------------------------------------------------------------------
(* Embedding Provider *)

None == [provider |-> "None", task_type |-> "None"]
GeminiFn(task_type) == [provider |-> "gemini", task_type |-> task_type]
OpenAIFn == [provider |-> "openai", task_type |-> "n/a"]

\* mutant: the secondary provider is preferred whenever its key is set
UseGeminiUnlessOpenAI == geminiKey /\ ~openaiKey

\* _use_gemini
_use_gemini == geminiKey

\* The vector a backend returns for a text.  The backends are external; the
\* model fixes one deterministic vector per (provider, task type, text).
ProviderDim(fn) == IF fn.provider = "gemini" THEN 1 ELSE 2
TaskDim(fn) == IF fn.task_type = "RETRIEVAL_QUERY" THEN 1 ELSE 0
EmbedOne(fn, text) == <<ProviderDim(fn), TaskDim(fn), Len(text)>>

\* embed(texts): one vector per text, in order
Embed(fn, texts) == [i \in 1..Len(texts) |-> EmbedOne(fn, texts[i])]

\* What a backend does with one embedding request: it answers with the
\* vectors ("vectors"), it answers without any ("missing": no result, or a
\* result without embeddings), or the request raises ("raise").  The OpenAI
\* client answers with one item per input or raises.
BackendResults(fn) ==
    IF fn.provider = "gemini" THEN {"vectors", "missing", "raise"}
    ELSE {"vectors", "raise"}

\* build_openai_embedding_fn.embed, lines 126-128
openai_embed(texts, result) ==
    IF result = "raise" THEN [raised |-> TRUE, vectors |-> <<>>]
    ELSE [raised |-> FALSE, vectors |-> Embed(OpenAIFn, texts)]

\* build_gemini_embedding_fn.embed, lines 151-159
gemini_embed(task_type, texts, result) ==
    IF result = "raise" THEN [raised |-> TRUE, vectors |-> <<>>]
    ELSE IF result = "missing"
    THEN [raised |-> FALSE, vectors |-> [i \in 1..Len(texts) |-> <<>>]]
    ELSE [raised |-> FALSE, vectors |-> Embed(GeminiFn(task_type), texts)]

\* embedding_fn(texts)
CallEmbed(fn, texts, result) ==
    IF fn.provider = "gemini" THEN gemini_embed(fn.task_type, texts, result)
    ELSE openai_embed(texts, result)

----------------------------------------------------------------------------
(* Vector Index: the Chroma collection recipe_docs *)

HasId(idx, id) == \E i \in 1..Len(idx) : idx[i].id = id

\* mutant: every record is appended, also under an id already stored
RECURSIVE CollectionAppend(_, _, _, _, _)
CollectionAppend(idx, ids, embeddings, documents, metadatas) ==
    IF ids = <<>> THEN idx
    ELSE CollectionAppend(
             Append(idx, [id |-> Head(ids), embedding |-> Head(embeddings),
                          document |-> Head(documents),
                          metadata |-> Head(metadatas)]),
             Tail(ids), Tail(embeddings), Tail(documents), Tail(metadatas))

\* collection.add(ids, embeddings, documents, metadatas): a record whose id
\* is already stored is left as it is; the others are appended in order
RECURSIVE CollectionAdd(_, _, _, _, _)
CollectionAdd(idx, ids, embeddings, documents, metadatas) ==
    IF ids = <<>> THEN idx
    ELSE LET e == [id |-> Head(ids), embedding |-> Head(embeddings),
                   document |-> Head(documents), metadata |-> Head(metadatas)]
             nxt == IF HasId(idx, e.id) THEN idx ELSE Append(idx, e)
         IN CollectionAdd(nxt, Tail(ids), Tail(embeddings), Tail(documents),
                          Tail(metadatas))

\* collection.count()
CollectionCount(idx) == Len(idx)

\* squared l2 distance, the collection's default metric
RECURSIVE Distance(_, _)
Distance(u, v) ==
    IF u = <<>> \/ v = <<>> THEN 0
    ELSE (Head(u) - Head(v)) * (Head(u) - Head(v)) + Distance(Tail(u), Tail(v))

\* entries ordered by distance to the query vector, closest first; entries
\* at the same distance stay in insertion order
RECURSIVE InsertByDistance(_, _, _)
InsertByDistance(sorted, e, qv) ==
    IF sorted = <<>> THEN <<e>>
    ELSE IF Distance(qv, e.embedding) < Distance(qv, Head(sorted).embedding)
         THEN <<e>> \o sorted
         ELSE <<Head(sorted)>> \o InsertByDistance(Tail(sorted), e, qv)

RECURSIVE Ranked(_, _)
Ranked(idx, qv) ==
    IF idx = <<>> THEN <<>>
    ELSE InsertByDistance(Ranked(SubSeq(idx, 1, Len(idx) - 1), qv),
                          idx[Len(idx)], qv)

Min(a, b) == IF a <= b THEN a ELSE b

\* collection.query(query_embeddings=[qv], n_results=n,
\*                  include=["documents", "metadatas", "distances"])
CollectionQuery(idx, qv, n) ==
    LET hits == Take(Ranked(idx, qv), n)
    IN [ids |-> << [i \in 1..Len(hits) |-> hits[i].id] >>,
        documents |-> << [i \in 1..Len(hits) |-> hits[i].document] >>,
        metadatas |-> << [i \in 1..Len(hits) |-> hits[i].metadata] >>,
        distances |-> << [i \in 1..Len(hits) |->
                              Distance(qv, hits[i].embedding)] >>]

----------------------------------------------------------------------------
(* index_recipes_into_chroma: the three lists built from the table *)

BuildIds(c) ==
    LET rs == AllRecipes(c) IN [i \in 1..Len(rs) |-> Str(rs[i])]

BuildDocuments(c) ==
    LET rs == AllRecipes(c) IN [i \in 1..Len(rs) |-> _get_recipe_document(c[rs[i]])]

BuildMetadatas(c) ==
    LET rs == AllRecipes(c)
    IN [i \in 1..Len(rs) |->
           [recipe_id |-> rs[i], title |-> Take(c[rs[i]].title, TitleLimit)]]

----------------------------------------------------------------------------
(* Retriever: the mapping of the hits to snippets *)

\* mutant: a text of exactly the limit is cut and marked too
SnippetAtLimit(doc) ==
    IF Len(doc) >= SnippetLimit
    THEN Take(doc, SnippetLimit) \o <<".",".",".">>
    ELSE doc

\* line 194
Snippet(doc) ==
    IF Len(doc) > SnippetLimit
    THEN Take(doc, SnippetLimit) \o <<".",".",".">>
    ELSE doc

\* meta.get("recipe_id") or int(doc_id)
RecipeIdOf(meta, doc_id) ==
    IF meta.recipe_id /= 0 THEN meta.recipe_id ELSE Int10(doc_id)

\* mutant: the hits are walked from the last to the first
ToSnippetsReversed(results) ==
    IF results.ids = <<>> \/ results.ids[1] = <<>> THEN <<>>
    ELSE LET k == Len(results.ids[1])
         IN [i \in 1..k |->
                [recipe_id |-> RecipeIdOf(results.metadatas[1][k + 1 - i],
                                          results.ids[1][k + 1 - i]),
                 title |-> results.metadatas[1][k + 1 - i].title,
                 snippet |-> Snippet(results.documents[1][k + 1 - i])]]

\* lines 185-200
ToSnippets(results) ==
    IF results.ids = <<>> \/ results.ids[1] = <<>> THEN <<>>
    ELSE [i \in 1..Len(results.ids[1]) |->
             [recipe_id |-> RecipeIdOf(results.metadatas[1][i], results.ids[1][i]),
              title |-> results.metadatas[1][i].title,
              snippet |-> Snippet(results.documents[1][i])]]

----------------------------------------------------------------------------
(* Fallback Search: fallback_answer *)

RECURSIVE Filter(_, _)
Filter(ws, minLen) ==
    IF ws = <<>> THEN <<>>
    ELSE IF Len(Strip(Head(ws))) > minLen
         THEN <<Strip(Head(ws))>> \o Filter(Tail(ws), minLen)
         ELSE Filter(Tail(ws), minLen)

\* mutant: the first five tokens are taken before the short ones are dropped
WordsSliceFirst(user_message) ==
    Filter(Take(Split(user_message), MaxWords), MinWordLen)

\* [w.strip() for w in user_message.split() if len(w.strip()) > 2][:5]
Words(user_message) == Take(Filter(Split(user_message), MinWordLen), MaxWords)

\* mutant: only the title is searched
MatchesTitle(row, words) ==
    \E i \in 1..Len(words) : IContains(row.title, words[i])

\* the Q object: any word in title, description or instructions
Matches(row, words) ==
    \E i \in 1..Len(words) :
        \/ IContains(row.title, words[i])
        \/ IContains(row.description, words[i])
        \/ IContains(row.instructions, words[i])

RECURSIVE SelectPks(_, _, _)
SelectPks(pks, c, words) ==
    IF pks = <<>> THEN <<>>
    ELSE IF Matches(c[Head(pks)], words)
         THEN <<Head(pks)>> \o SelectPks(Tail(pks), c, words)
         ELSE SelectPks(Tail(pks), c, words)

\* list(Recipe.objects.filter(q).select_related("category").distinct()[:5])
FilterRecipes(c, words) == Take(SelectPks(AllRecipes(c), c, words), MaxMatches)

\* mutant: the id list is taken before the cut to five
fallback_answer_uncut(user_message, c) ==
    LET words == Words(user_message)
        recipes == FilterRecipes(c, words)
        titles == [i \in 1..Len(recipes) |-> c[recipes[i]].title]
    IN IF words = <<>>
       THEN [answer |-> [kind |-> "ask_me", text |-> <<>>, n |-> 0],
             recipe_ids |-> <<>>]
       ELSE IF recipes = <<>>
       THEN [answer |-> [kind |-> "no_match", text |-> user_message, n |-> 0],
             recipe_ids |-> <<>>]
       ELSE [answer |-> [kind |-> "found", text |-> Join(titles, <<","," ">>),
                         n |-> Len(recipes)],
             recipe_ids |-> SelectPks(AllRecipes(c), c, words)]

\* lines 294-330
fallback_answer(user_message, c) ==
    LET words == Words(user_message)
        recipes == FilterRecipes(c, words)
        titles == [i \in 1..Len(recipes) |-> c[recipes[i]].title]
    IN IF words = <<>>
       THEN [answer |-> [kind |-> "ask_me", text |-> <<>>, n |-> 0],
             recipe_ids |-> <<>>]
       ELSE IF recipes = <<>>
       THEN [answer |-> [kind |-> "no_match", text |-> user_message, n |-> 0],
             recipe_ids |-> <<>>]
       ELSE [answer |-> [kind |-> "found", text |-> Join(titles, <<","," ">>),
                         n |-> Len(recipes)],
             recipe_ids |-> recipes]

\* Recipe.objects.filter(pk=rid).values_list("title", flat=True).first() or ""
TitleOf(c, rid) == IF rid \in DOMAIN c THEN c[rid].title ELSE <<>>

ResolveTitles(c, recipe_ids) ==
    [i \in 1..Len(recipe_ids) |->
        [recipe_id |-> recipe_ids[i], title |-> TitleOf(c, recipe_ids[i])]]

----------------------------------------------------------------------------
(* Answer Generator *)

NoAnswer == [kind |-> "", text |-> <<>>, n |-> 0]

\* f"[Recipe: {r['title']} (ID: {r['recipe_id']})]\n{r['snippet']}\n"
ContextBlock(r) ==
    <<"[","R","e","c","i","p","e",":"," ">> \o r.title \o <<" ","(","I","D",":"," ">>
        \o Str(r.recipe_id) \o <<")","]","\n">> \o r.snippet \o <<"\n">>

NoRecipesContext ==
    <<"N","o"," ","s","p","e","c","i","f","i","c"," ","r","e","c",
      "i","p","e","s"," ","w","e","r","e"," ","f","o","u","n","d",
      " ","i","n"," ","t","h","e"," ","d","a","t","a","b","a","s",
      "e",".">>

BuildContext(retrieved) ==
    LET context_parts == [i \in 1..Len(retrieved) |-> ContextBlock(retrieved[i])]
    IN IF context_parts /= <<>> THEN Join(context_parts, <<"\n">>)
       ELSE NoRecipesContext

UserContent(user_message, retrieved) ==
    <<"R","e","c","i","p","e"," ","c","o","n","t","e","x","t",":","\n">>
        \o BuildContext(retrieved)
        \o <<"\n","\n","U","s","e","r"," ","q","u","e","s","t","i","o","n",":"," ">>
        \o user_message

\* The backend's reply: "text" (an answer), "empty" (no text) or "raise".
GenOutcomes == {"text", "empty", "raise"}

\* mutant: the client is built and asked before the key is looked at
generate_answer_with_openai_unchecked(user_message, retrieved, base_url, outcome) ==
    IF outcome = "raise"
    THEN [raised |-> TRUE, called |-> TRUE, answer |-> NoAnswer]
    ELSE IF outcome = "empty"
    THEN [raised |-> FALSE, called |-> TRUE,
          answer |-> [kind |-> "could_not_generate", text |-> <<>>, n |-> 0]]
    ELSE [raised |-> FALSE, called |-> TRUE,
          answer |-> [kind |-> "generated",
                      text |-> UserContent(user_message, retrieved), n |-> 0]]

\* The reply of a backend is external; the model keeps the prompt it was
\* asked with as the text of the generated answer.  The kinds
\* "no_openai_key" and "no_gemini_key" are the fixed messages of lines
\* 212-216 and 254-258, which name OPENAI_API_KEY and GEMINI_API_KEY.
generate_answer_with_openai(user_message, retrieved, base_url, outcome) ==
    IF ~openaiKey
    THEN [raised |-> FALSE, called |-> FALSE,
          answer |-> [kind |-> "no_openai_key", text |-> <<>>, n |-> 0]]
    ELSE IF outcome = "raise"
    THEN [raised |-> TRUE, called |-> TRUE, answer |-> NoAnswer]
    ELSE IF outcome = "empty"
    THEN [raised |-> FALSE, called |-> TRUE,
          answer |-> [kind |-> "could_not_generate", text |-> <<>>, n |-> 0]]
    ELSE [raised |-> FALSE, called |-> TRUE,
          answer |-> [kind |-> "generated",
                      text |-> UserContent(user_message, retrieved), n |-> 0]]

generate_answer_with_gemini(user_message, retrieved, base_url, outcome) ==
    IF ~geminiKey
    THEN [raised |-> FALSE, called |-> FALSE,
          answer |-> [kind |-> "no_gemini_key", text |-> <<>>, n |-> 0]]
    ELSE IF ~genaiInstalled
    THEN [raised |-> FALSE, called |-> FALSE,
          answer |-> [kind |-> "install_genai", text |-> <<>>, n |-> 0]]
    ELSE IF outcome = "raise"
    THEN [raised |-> TRUE, called |-> TRUE, answer |-> NoAnswer]
    ELSE IF outcome = "empty"
    THEN [raised |-> FALSE, called |-> TRUE,
          answer |-> [kind |-> "could_not_generate", text |-> <<>>, n |-> 0]]
    ELSE [raised |-> FALSE, called |-> TRUE,
          answer |-> [kind |-> "generated",
                      text |-> UserContent(user_message, retrieved), n |-> 0]]

\* generate_fn(user_message, retrieved, base_url)
Generate(generate_fn, user_message, retrieved, base_url, outcome) ==
    IF generate_fn = "gemini"
    THEN generate_answer_with_gemini(user_message, retrieved, base_url, outcome)
    ELSE generate_answer_with_openai(user_message, retrieved, base_url, outcome)

----------------------------------------------------------------------------
(* Provider selection *)

\* build_openai_embedding_fn(); constructed: OpenAI(api_key=key) returned
build_openai_embedding_fn(constructed) ==
    IF ~openaiKey THEN [raised |-> FALSE, fn |-> None]
    ELSE IF ~constructed THEN [raised |-> TRUE, fn |-> None]
    ELSE [raised |-> FALSE, fn |-> OpenAIFn]

\* build_gemini_embedding_fn(task_type); constructed: genai.Client(api_key=key)
\* returned
build_gemini_embedding_fn(task_type, constructed) ==
    IF ~geminiKey THEN [raised |-> FALSE, fn |-> None]
    ELSE IF ~genaiInstalled THEN [raised |-> FALSE, fn |-> None]
    ELSE IF ~constructed THEN [raised |-> TRUE, fn |-> None]
    ELSE [raised |-> FALSE, fn |-> GeminiFn(task_type)]

\* mutant: the Gemini embedding function paired with the OpenAI generator
SelectQueryProviderCrossed(constructed) ==
    IF _use_gemini
    THEN [generate_fn |-> "openai", use_gemini |-> TRUE,
          built |-> build_gemini_embedding_fn("RETRIEVAL_QUERY", constructed)]
    ELSE [generate_fn |-> "openai", use_gemini |-> FALSE,
          built |-> build_openai_embedding_fn(constructed)]

\* get_rag_response, lines 356-362
SelectQueryProvider(constructed) ==
    IF _use_gemini
    THEN [generate_fn |-> "gemini", use_gemini |-> TRUE,
          built |-> build_gemini_embedding_fn("RETRIEVAL_QUERY", constructed)]
    ELSE [generate_fn |-> "openai", use_gemini |-> FALSE,
          built |-> build_openai_embedding_fn(constructed)]

\* mutant: the command builds the Gemini function in query mode
SelectIndexProviderQueryMode(constructed) ==
    IF _use_gemini
    THEN [key_name |-> "GEMINI_API_KEY", use_gemini |-> TRUE,
          built |-> build_gemini_embedding_fn("RETRIEVAL_QUERY", constructed)]
    ELSE [key_name |-> "OPENAI_API_KEY", use_gemini |-> FALSE,
          built |-> build_openai_embedding_fn(constructed)]

\* Command.handle, lines 36-42
SelectIndexProvider(constructed) ==
    IF _use_gemini
    THEN [key_name |-> "GEMINI_API_KEY", use_gemini |-> TRUE,
          built |-> build_gemini_embedding_fn("RETRIEVAL_DOCUMENT", constructed)]
    ELSE [key_name |-> "OPENAI_API_KEY", use_gemini |-> FALSE,
          built |-> build_openai_embedding_fn(constructed)]

----------------------------------------------------------------------------
(* Inputs *)

Messages ==
    { <<" "," ">>,
      <<"a"," ","k","a","l","e">>,
      <<"t","o","m","a","t","o"," ","p","i","e">> }

BaseUrls == { <<>>, <<"h",":","/","/","x">> }

\* confidence, in tenths
ConfHit == 9
ConfNoHit == 6
ConfException == 5
ConfNoRag == 6

\* mutant: the hit confidence also when nothing was retrieved
AlwaysHitConfidence(retrieved) == ConfHit

\* lines 381 and 388
GenConfidence(retrieved) == IF retrieved /= <<>> THEN ConfHit ELSE ConfNoHit

\* mutant: the except branch reports the confidence of the else branch
AlwaysNoRagConfidence(branch) == ConfNoRag

\* lines 396 and 403
FallbackConfidence(branch) ==
    IF branch = "except" THEN ConfException ELSE ConfNoRag

\* mutant: the projection in reverse order
ProjectDocsReversed(retrieved) ==
    [i \in 1..Len(retrieved) |->
        [recipe_id |-> retrieved[Len(retrieved) + 1 - i].recipe_id,
         title |-> retrieved[Len(retrieved) + 1 - i].title]]

\* lines 382-385: [{"recipe_id": ..., "title": ...} for r in retrieved]
ProjectDocs(retrieved) ==
    [i \in 1..Len(retrieved) |->
        [recipe_id |-> retrieved[i].recipe_id, title |-> retrieved[i].title]]

----------------------------------------------------------------------------
(* Initial state *)

QIdle ==
    [pc |-> "idle", user_message |-> <<>>, base_url |-> <<>>,
     use_gemini |-> FALSE, generate_fn |-> "", embedding_fn |-> None,
     use_rag |-> FALSE, handle |-> "none", total |-> 0, query_embedding |-> <<>>,
     retrieval |-> "", retrieved |-> <<>>, recipe_ids |-> <<>>,
     branch |-> "", why |-> "",
     answer |-> NoAnswer, retrieved_docs |-> <<>>, confidence |-> 0,
     raised |-> "", embed_calls |-> <<>>, query_calls |-> <<>>,
     gen_calls |-> <<>>, fallback_calls |-> 0]

IxIdle ==
    [pc |-> "idle", clear |-> FALSE, use_gemini |-> FALSE,
     embedding_fn |-> None, handle |-> "none", recipes |-> <<>>, ids |-> <<>>,
     documents |-> <<>>, metadatas |-> <<>>, embeddings |-> <<>>,
     count |-> -1, outcome |-> "", before |-> <<>>, embed_calls |-> <<>>,
     added |-> FALSE, repeat |-> FALSE, deleted |-> FALSE, why |-> ""]

NoRun == [outcome |-> "", changed |-> FALSE]

NoUnit == [pc |-> "idle", fn |-> ""]

NoRequest == [pc |-> "idle"]

Init ==
    /\ geminiKey \in BOOLEAN
    /\ openaiKey \in BOOLEAN
    /\ genaiInstalled \in (IF geminiKey THEN BOOLEAN ELSE {TRUE})
    /\ dirExists = FALSE
    /\ corpus = <<>>
    /\ collExists = FALSE
    /\ nextPk = 1
    /\ index = <<>>
    /\ q = QIdle
    /\ ix = IxIdle
    /\ prev = NoRun
    /\ edits = 0
    /\ unit = NoUnit
    /\ view = NoRequest
    /\ chats = <<>>
    /\ q2 = QIdle

----------------------------------------------------------------------------
(* The Recipe table is edited by the site's CRUD views.  An edit commutes   *)
(* with every step that does not read the table, so it is taken where a     *)
(* reader can see it: between calls, and between the two reads of the        *)
(* fallback path.                                                            *)

EditPoint == ix.pc = "idle" /\ q.pc \in {"idle", "resolve"}

CreateRecipe ==
    /\ EditPoint
    /\ nextPk <= MaxRecipes
    /\ corpus' = [pk \in DOMAIN corpus \cup {nextPk} |->
                      IF pk = nextPk THEN NewRow(pk) ELSE corpus[pk]]
    /\ nextPk' = nextPk + 1
    /\ prev' = [prev EXCEPT !.changed = TRUE]
    /\ UNCHANGED <<q2, unit, view, chats, geminiKey, openaiKey, genaiInstalled, dirExists, collExists,
                   index, q, ix, edits>>

UpdateRecipe ==
    /\ EditPoint
    /\ edits < MaxEdits
    /\ \E pk \in DOMAIN corpus, row \in RowPool :
           /\ row /= corpus[pk]
           /\ corpus' = [corpus EXCEPT ![pk] = row]
    /\ edits' = edits + 1
    /\ prev' = [prev EXCEPT !.changed = TRUE]
    /\ UNCHANGED <<q2, unit, view, chats, geminiKey, openaiKey, genaiInstalled, dirExists, collExists,
                   nextPk, index, q, ix>>

DeleteRecipe ==
    /\ EditPoint
    /\ edits < MaxEdits
    /\ \E pk \in DOMAIN corpus :
           corpus' = [p \in DOMAIN corpus \ {pk} |-> corpus[p]]
    /\ edits' = edits + 1
    /\ prev' = [prev EXCEPT !.changed = TRUE]
    /\ UNCHANGED <<q2, unit, view, chats, geminiKey, openaiKey, genaiInstalled, dirExists, collExists,
                   nextPk, index, q, ix>>

----------------------------------------------------------------------------
(* get_chroma_collection / client.get_or_create_collection("recipe_docs") *)

\* mutant: create_collection in place of get_or_create_collection: opening
\* the index starts it over
GetOrCreateAnew ==
    /\ collExists' = TRUE
    /\ index' = <<>>

GetOrCreate ==
    /\ collExists' = TRUE
    /\ index' = IF collExists THEN index ELSE <<>>

\* A collection object names its collection by id: it is "live" until that
\* collection is deleted and "stale" from then on, also when a collection of
\* the same name is created again.
Usable(handle) == handle = "live"

----------------------------------------------------------------------------
(* get_rag_response(user_message, request) *)

QEnv == <<geminiKey, openaiKey, genaiInstalled, dirExists, corpus, nextPk,
          ix, prev, edits, unit, view, chats, q2>>

Q_Start ==
    /\ q.pc = "idle"
    /\ ix.pc = "idle"
    /\ \E m \in Messages :
           q' = [QIdle EXCEPT !.pc = "select", !.user_message = m]
    /\ UNCHANGED <<QEnv, collExists, index>>

\* lines 356-364: provider selection and use_rag
Q_Select ==
    /\ q.pc = "select"
    /\ \E constructed \in BOOLEAN :
           LET sel == SelectQueryProvider(constructed)
               use_rag == sel.built.fn /= None /\ dirExists
           IN q' = IF sel.built.raised
                   THEN [q EXCEPT !.pc = "raised", !.raised = "provider",
                                  !.use_gemini = sel.use_gemini,
                                  !.generate_fn = sel.generate_fn]
                   ELSE [q EXCEPT !.pc = IF use_rag THEN "open" ELSE "fallback",
                                  !.use_gemini = sel.use_gemini,
                                  !.generate_fn = sel.generate_fn,
                                  !.embedding_fn = sel.built.fn,
                                  !.use_rag = use_rag,
                                  !.branch = IF use_rag THEN "" ELSE "else",
                                  !.why = IF use_rag THEN ""
                                          ELSE IF sel.built.fn = None
                                               THEN "no_embedding_fn"
                                               ELSE "no_directory"]
    /\ UNCHANGED <<QEnv, collExists, index>>

\* line 368: collection = get_chroma_collection(persist_dir, embedding_fn)
Q_Open ==
    /\ q.pc = "open"
    /\ \/ /\ GetOrCreate
          /\ q' = [q EXCEPT !.pc = "count", !.handle = "live"]
       \/ /\ q' = [q EXCEPT !.pc = "fallback", !.use_rag = FALSE,
                            !.branch = "else", !.why = "open_failed"]
          /\ UNCHANGED <<collExists, index>>
    /\ UNCHANGED QEnv

\* lines 369-372: if collection.count() == 0: use_rag = False
Q_Count ==
    /\ q.pc = "count"
    /\ \E ok \in BOOLEAN :
           q' = IF ~ok \/ ~Usable(q.handle)
                THEN [q EXCEPT !.pc = "fallback", !.use_rag = FALSE,
                               !.branch = "else", !.why = "count_failed"]
                ELSE IF CollectionCount(index) = 0
                THEN [q EXCEPT !.pc = "fallback", !.use_rag = FALSE,
                               !.branch = "else", !.why = "empty_index"]
                ELSE [q EXCEPT !.pc = "retrieve"]
    /\ UNCHANGED <<QEnv, collExists, index>>

\* retrieve_relevant_recipes, lines 169-178: the guards, then the embedding
\* of the query
Q_Retrieve ==
    /\ q.pc = "retrieve"
    /\ \E counted \in BOOLEAN, result \in BackendResults(q.embedding_fn) :
           LET total == IF counted /\ Usable(q.handle)
                        THEN CollectionCount(index) ELSE 0
               texts == <<Strip(q.user_message)>>
               e == CallEmbed(q.embedding_fn, texts, result)
           IN q' = IF Strip(q.user_message) = <<>>
                   THEN [q EXCEPT !.pc = "generate", !.retrieved = <<>>,
                                  !.retrieval = "returned"]
                   ELSE IF total = 0
                   THEN [q EXCEPT !.pc = "generate", !.retrieved = <<>>,
                                  !.retrieval = "returned", !.total = 0]
                   ELSE IF e.raised
                   THEN [q EXCEPT !.pc = "fallback", !.branch = "except",
                                  !.retrieval = "raised",
                                  !.why = "embed_raised", !.total = total,
                                  !.embed_calls = Append(@, texts)]
                   ELSE [q EXCEPT !.pc = "query", !.total = total,
                                  !.embed_calls = Append(@, texts),
                                  !.query_embedding = e.vectors[1]]
    /\ UNCHANGED <<QEnv, collExists, index>>

\* retrieve_relevant_recipes, lines 179-200: the index query and the snippets;
\* the collection rejects a query vector without components
Q_Query ==
    /\ q.pc = "query"
    /\ \E ok \in BOOLEAN :
           LET n_results == Min(TopN, q.total)
               call == [query_embedding |-> q.query_embedding,
                        n_results |-> n_results]
               results == CollectionQuery(index, q.query_embedding, n_results)
           IN q' = IF ~ok \/ ~Usable(q.handle) \/ q.query_embedding = <<>>
                   THEN [q EXCEPT !.pc = "fallback", !.branch = "except",
                                  !.retrieval = "raised",
                                  !.why = "query_raised",
                                  !.query_calls = Append(@, call)]
                   ELSE [q EXCEPT !.pc = "generate",
                                  !.retrieval = "returned",
                                  !.query_calls = Append(@, call),
                                  !.retrieved = ToSnippets(results)]
    /\ UNCHANGED <<QEnv, collExists, index>>

\* lines 379-389: the answer generator on the retrieved snippets.  base_url
\* (lines 347-349) is an input of the call that nothing reads before this
\* step, so its value is drawn here.
Q_Generate ==
    /\ q.pc = "generate"
    /\ \E outcome \in GenOutcomes, base_url \in BaseUrls :
           LET arg == IF q.retrieved /= <<>> THEN q.retrieved ELSE <<>>
               g == Generate(q.generate_fn, q.user_message, arg, base_url,
                             outcome)
           IN q' = IF g.raised
                   THEN [q EXCEPT !.pc = "fallback", !.branch = "except",
                                  !.why = "generate_raised",
                                  !.base_url = base_url,
                                  !.gen_calls = Append(@, arg)]
                   ELSE [q EXCEPT !.pc = "done",
                                  !.base_url = base_url,
                                  !.gen_calls = Append(@, arg),
                                  !.answer = g.answer,
                                  !.confidence = GenConfidence(q.retrieved),
                                  !.retrieved_docs = ProjectDocs(arg)]
    /\ UNCHANGED <<QEnv, collExists, index>>

\* lines 391 and 398: answer, recipe_ids = fallback_answer(user_message, Recipe)
Q_Fallback ==
    /\ q.pc = "fallback"
    /\ LET f == fallback_answer(q.user_message, corpus)
       IN q' = [q EXCEPT !.pc = "resolve", !.answer = f.answer,
                         !.recipe_ids = f.recipe_ids,
                         !.fallback_calls = @ + 1]
    /\ UNCHANGED <<QEnv, collExists, index>>

\* lines 392-396 and 399-403: the ids resolved to titles, and the confidence
Q_Resolve ==
    /\ q.pc = "resolve"
    /\ q' = [q EXCEPT !.pc = "done",
                      !.retrieved_docs = ResolveTitles(corpus, q.recipe_ids),
                      !.confidence = FallbackConfidence(q.branch)]
    /\ UNCHANGED <<QEnv, collExists, index>>

\* the call is over: the result was returned, or the exception is the caller's
Q_Return ==
    /\ q.pc \in {"done", "raised"}
    /\ q' = QIdle
    /\ UNCHANGED <<QEnv, collExists, index>>

----------------------------------------------------------------------------
(* python manage.py index_recipes [--clear]: Command.handle *)

IEnv == <<geminiKey, openaiKey, genaiInstalled, corpus, nextPk, edits, unit,
          view, chats, q2>>

I_Start ==
    /\ ix.pc = "idle"
    /\ q.pc = "idle"
    /\ \E clear \in BOOLEAN :
           ix' = [IxIdle EXCEPT !.pc = "select", !.clear = clear,
                                !.before = index]
    /\ UNCHANGED <<IEnv, q, dirExists, collExists, index, prev>>

\* lines 36-55: provider selection, then os.makedirs(persist_dir)
I_Select ==
    /\ ix.pc = "select"
    /\ \E constructed \in BOOLEAN :
           LET sel == SelectIndexProvider(constructed)
           IN IF sel.built.raised
              THEN /\ ix' = [ix EXCEPT !.pc = "done", !.outcome = "raised",
                                       !.why = "provider",
                                       !.use_gemini = sel.use_gemini]
                   /\ UNCHANGED dirExists
              ELSE IF sel.built.fn = None
              THEN /\ ix' = [ix EXCEPT !.pc = "done", !.outcome = "no_key",
                                       !.use_gemini = sel.use_gemini]
                   /\ UNCHANGED dirExists
              ELSE /\ ix' = [ix EXCEPT !.pc = IF ix.clear THEN "clear"
                                              ELSE "create",
                                       !.use_gemini = sel.use_gemini,
                                       !.embedding_fn = sel.built.fn]
                   /\ dirExists' = TRUE
    /\ UNCHANGED <<IEnv, q, collExists, index, prev>>

\* lines 68-73: client.delete_collection("recipe_docs"); it raises when
\* there is no such collection or the store fails, and the error is swallowed
I_Clear ==
    /\ ix.pc = "clear"
    /\ \/ /\ collExists
          /\ ix' = [ix EXCEPT !.pc = "create", !.deleted = TRUE]
          /\ collExists' = FALSE
          /\ index' = <<>>
          /\ q' = IF q.handle = "live" THEN [q EXCEPT !.handle = "stale"] ELSE q
       \/ /\ ix' = [ix EXCEPT !.pc = "create"]
          /\ UNCHANGED <<collExists, index, q>>
    /\ UNCHANGED <<IEnv, dirExists, prev>>

\* mutant: no early return on an empty table
I_CreateNoEmptyGuard ==
    /\ ix.pc = "create"
    /\ GetOrCreate
    /\ ix' = [ix EXCEPT !.pc = "embed", !.handle = "live",
                        !.repeat = prev.outcome = "indexed" /\ ~prev.changed,
                        !.recipes = corpus,
                        !.ids = BuildIds(corpus),
                        !.documents = BuildDocuments(corpus),
                        !.metadatas = BuildMetadatas(corpus)]
    /\ prev' = [prev EXCEPT !.changed = FALSE]
    /\ UNCHANGED <<IEnv, q, dirExists>>

\* lines 75-78, then index_recipes_into_chroma lines 69-86: the collection,
\* the rows and the three lists
I_Create ==
    /\ ix.pc = "create"
    /\ GetOrCreate
    /\ ix' = IF AllRecipes(corpus) = <<>>
             THEN [ix EXCEPT !.pc = "done", !.outcome = "indexed",
                             !.handle = "live", !.count = 0,
                             !.repeat = prev.outcome = "indexed" /\ ~prev.changed]
             ELSE [ix EXCEPT !.pc = "embed", !.handle = "live",
                             !.repeat = prev.outcome = "indexed" /\ ~prev.changed,
                             !.recipes = corpus,
                             !.ids = BuildIds(corpus),
                             !.documents = BuildDocuments(corpus),
                             !.metadatas = BuildMetadatas(corpus)]
    /\ prev' = [prev EXCEPT !.changed = FALSE]
    /\ UNCHANGED <<IEnv, q, dirExists>>

\* mutant: a failed embedding call is caught and reported as 0 indexed
I_EmbedCatching ==
    /\ ix.pc = "embed"
    /\ \E result \in BackendResults(ix.embedding_fn) :
           LET e == CallEmbed(ix.embedding_fn, ix.documents, result)
           IN ix' = IF ~e.raised
                 THEN [ix EXCEPT !.pc = "add",
                                 !.embed_calls = Append(@, ix.documents),
                                 !.embeddings = e.vectors]
                 ELSE [ix EXCEPT !.pc = "done", !.outcome = "indexed",
                                 !.why = "embed", !.count = 0,
                                 !.embed_calls = Append(@, ix.documents)]
    /\ UNCHANGED <<IEnv, q, dirExists, collExists, index, prev>>

\* line 89: embeddings = embedding_fn(documents)
I_Embed ==
    /\ ix.pc = "embed"
    /\ \E result \in BackendResults(ix.embedding_fn) :
           LET e == CallEmbed(ix.embedding_fn, ix.documents, result)
           IN ix' = IF ~e.raised
                 THEN [ix EXCEPT !.pc = "add",
                                 !.embed_calls = Append(@, ix.documents),
                                 !.embeddings = e.vectors]
                 ELSE [ix EXCEPT !.pc = "done", !.outcome = "raised",
                                 !.why = "embed",
                                 !.embed_calls = Append(@, ix.documents)]
    /\ UNCHANGED <<IEnv, q, dirExists, collExists, index, prev>>

\* lines 90-96: collection.add(...); return len(recipes).  The collection
\* rejects a vector without components.
I_Add ==
    /\ ix.pc = "add"
    /\ \E ok \in BOOLEAN :
           IF /\ ok /\ Usable(ix.handle)
              /\ \A i \in 1..Len(ix.embeddings) : ix.embeddings[i] /= <<>>
           THEN /\ index' = CollectionAdd(index, ix.ids, ix.embeddings,
                                          ix.documents, ix.metadatas)
                /\ ix' = [ix EXCEPT !.pc = "done", !.outcome = "indexed",
                                    !.added = TRUE,
                                    !.count = Len(ix.ids)]
           ELSE /\ ix' = [ix EXCEPT !.pc = "done", !.outcome = "raised",
                                    !.why = "add"]
                /\ UNCHANGED index
    /\ UNCHANGED <<IEnv, q, dirExists, collExists, prev>>

\* the command has ended: with its count printed, with the missing-key error
\* printed, or with the exception that left handle
I_Finish ==
    /\ ix.pc = "done"
    /\ prev' = [prev EXCEPT !.outcome = ix.outcome]
    /\ ix' = IxIdle
    /\ UNCHANGED <<IEnv, q, dirExists, collExists, index>>

----------------------------------------------------------------------------

Next ==
    \/ CreateRecipe \/ UpdateRecipe \/ DeleteRecipe
    \/ Q_Start \/ Q_Select \/ Q_Open \/ Q_Count \/ Q_Retrieve \/ Q_Query
    \/ Q_Generate \/ Q_Fallback \/ Q_Resolve \/ Q_Return
    \/ I_Start \/ I_Select \/ I_Clear \/ I_Create \/ I_Embed \/ I_Add
    \/ I_Finish

Spec == Init /\ [][Next]_vars

----------------------------------------------------------------------------
(* Direct calls of one function: the table and the index they run on *)

\* filler text of n characters, words of four letters
Pad(n) == [i \in 1..n |-> IF i % 5 = 0 THEN " " ELSE "s"]

\* a recipe whose document has exactly SnippetLimit characters
RowBroth ==
    [title |-> <<"B","r","o","t","h">>,
     description |-> <<"k","a","l","e">>,
     difficulty |-> <<"e","a","s","y">>,
     prep_time |-> 5, cook_time |-> 40, servings |-> 2,
     instructions |-> Pad(181),
     ingredients |-> <<>>,
     category |-> <<>>]

\* a recipe whose document has one character more
RowStew ==
    [title |-> <<"S","t","e","w">>,
     description |-> <<"T","o","m","a","t","o">>,
     difficulty |-> <<"h","a","r","d">>,
     prep_time |-> 20, cook_time |-> 90, servings |-> 6,
     instructions |-> Pad(147),
     ingredients |-> << [quantity |-> <<"1">>, name |-> <<"k","g">>] >>,
     category |-> << <<"M","a","i","n">> >>]

UnitRow(pk) ==
    CASE pk = 1 -> RowPie [] pk = 2 -> RowBroth [] pk = 3 -> RowStew
      [] pk = 4 -> RowSoup [] pk = 5 -> RowTea [] pk = 6 -> RowPie
      [] OTHER -> RowSoup

\* the tables: any set of rows left of those created with pks 1, 2, ...
UnitCorpora ==
    { [pk \in S |-> UnitRow(pk)] : S \in SUBSET (1..MaxUnitRecipes) }

\* the index a completed index_recipes run leaves for a table
IndexOf(c, fn) ==
    CollectionAdd(<<>>, BuildIds(c), Embed(fn, BuildDocuments(c)),
                  BuildDocuments(c), BuildMetadatas(c))

UnitQueries ==
    Messages \cup { <<>>, <<" ","p","i","e","\n">> }

UnitEnv == <<geminiKey, openaiKey, genaiInstalled, dirExists, corpus,
             collExists, nextPk, index, q, ix, prev, edits, view, chats, q2>>

\* everything but the table, the index and the call
UnitInit ==
    /\ geminiKey \in BOOLEAN
    /\ openaiKey \in BOOLEAN
    /\ genaiInstalled \in (IF geminiKey THEN BOOLEAN ELSE {TRUE})
    /\ dirExists = TRUE
    /\ collExists = TRUE
    /\ q = QIdle
    /\ ix = IxIdle
    /\ prev = NoRun
    /\ edits = 0
    /\ unit = NoUnit
    /\ view = NoRequest
    /\ chats = <<>>
    /\ q2 = QIdle

----------------------------------------------------------------------------
(* retrieve_relevant_recipes(collection, query, embedding_fn, n) *)

RIdle ==
    [pc |-> "idle", fn |-> "retrieve", query |-> <<>>, n |-> 0,
     embedding_fn |-> None, total |-> 0, query_embedding |-> <<>>,
     results |-> [ids |-> <<>>, documents |-> <<>>, metadatas |-> <<>>,
                  distances |-> <<>>],
     out |-> <<>>, count_calls |-> 0, embed_calls |-> <<>>,
     query_calls |-> <<>>]

RetrieveInit ==
    /\ UnitInit
    /\ geminiKey /\ openaiKey /\ genaiInstalled
    /\ \E c \in UnitCorpora :
           /\ corpus = c
           /\ nextPk = MaxUnitRecipes + 1
           /\ index \in {IndexOf(c, GeminiFn("RETRIEVAL_DOCUMENT")), <<>>}

R_Call ==
    /\ unit.pc = "idle"
    /\ \E query \in UnitQueries, n \in {2, TopN},
          fn \in {GeminiFn("RETRIEVAL_QUERY"), OpenAIFn} :
           unit' = [RIdle EXCEPT !.pc = "guard", !.query = query, !.n = n,
                                 !.embedding_fn = fn]
    /\ UNCHANGED UnitEnv

\* mutant: only the empty string is turned away
R_GuardEmptyOnly ==
    /\ unit.pc = "guard"
    /\ unit' = IF unit.query = <<>>
               THEN [unit EXCEPT !.pc = "done", !.out = <<>>]
               ELSE [unit EXCEPT !.pc = "count"]
    /\ UNCHANGED UnitEnv

\* lines 169-170
R_Guard ==
    /\ unit.pc = "guard"
    /\ unit' = IF Strip(unit.query) = <<>>
               THEN [unit EXCEPT !.pc = "done", !.out = <<>>]
               ELSE [unit EXCEPT !.pc = "count"]
    /\ UNCHANGED UnitEnv

\* mutant: the size is read but an empty index is not turned away
R_CountOnly ==
    /\ unit.pc = "count"
    /\ \E counted \in BOOLEAN :
           unit' = [unit EXCEPT !.pc = "embed", !.count_calls = @ + 1,
                                !.total = IF counted THEN CollectionCount(index)
                                          ELSE 0]
    /\ UNCHANGED UnitEnv

\* lines 171-176
R_Count ==
    /\ unit.pc = "count"
    /\ \E counted \in BOOLEAN :
           LET total == IF counted THEN CollectionCount(index) ELSE 0
           IN unit' = IF total = 0
                      THEN [unit EXCEPT !.pc = "done", !.out = <<>>,
                                        !.count_calls = @ + 1]
                      ELSE [unit EXCEPT !.pc = "embed", !.total = total,
                                        !.count_calls = @ + 1]
    /\ UNCHANGED UnitEnv

\* line 178
R_Embed ==
    /\ unit.pc = "embed"
    /\ \E result \in BackendResults(unit.embedding_fn) :
           LET texts == <<Strip(unit.query)>>
               e == CallEmbed(unit.embedding_fn, texts, result)
           IN unit' = IF e.raised
                      THEN [unit EXCEPT !.pc = "raised",
                                        !.embed_calls = Append(@, texts)]
                      ELSE [unit EXCEPT !.pc = "query",
                                        !.embed_calls = Append(@, texts),
                                        !.query_embedding = e.vectors[1]]
    /\ UNCHANGED UnitEnv

\* lines 179-200
R_Query ==
    /\ unit.pc = "query"
    /\ \E ok \in BOOLEAN :
           LET n_results == Min(unit.n, unit.total)
               call == [query_embedding |-> unit.query_embedding,
                        n_results |-> n_results]
               results == CollectionQuery(index, unit.query_embedding,
                                          n_results)
           IN unit' = IF ~ok \/ unit.query_embedding = <<>>
                      THEN [unit EXCEPT !.pc = "raised",
                                        !.query_calls = Append(@, call)]
                      ELSE [unit EXCEPT !.pc = "done",
                                        !.query_calls = Append(@, call),
                                        !.results = results,
                                        !.out = ToSnippets(results)]
    /\ UNCHANGED UnitEnv

R_Return ==
    /\ unit.pc \in {"done", "raised"}
    /\ unit.fn = "retrieve"
    /\ unit' = NoUnit
    /\ UNCHANGED UnitEnv

RetrieveNext ==
    \/ R_Call \/ R_Guard \/ R_Count \/ R_Embed \/ R_Query \/ R_Return

RetrieveSpec == RetrieveInit /\ [][RetrieveNext]_vars

----------------------------------------------------------------------------
(* fallback_answer(user_message, Recipe) *)

FallbackMessages ==
    Messages \cup
    { <<"a"," ","t","o">>,
      <<"a"," ","b"," ","c"," ","d"," ","e"," ","t","e","a">>,
      <<"x","x","x"," ","y","y","y"," ","z","z","z"," ","w","w","w"," ",
        "v","v","v"," ","t","e","a">>,
      <<"T","E","A","\t","k","a","l","e","\n","t","o","m","a","t","o">>,
      <<"o","k"," ","S","T","E","W">> }

FIdle ==
    [pc |-> "idle", fn |-> "fallback", user_message |-> <<>>, words |-> <<>>,
     answer |-> NoAnswer, recipe_ids |-> <<>>, db_queries |-> 0]

FallbackInit ==
    /\ UnitInit
    /\ ~geminiKey /\ ~openaiKey
    /\ corpus \in UnitCorpora
    /\ nextPk = MaxUnitRecipes + 1
    /\ index = <<>>

F_Call ==
    /\ unit.pc = "idle"
    /\ \E m \in FallbackMessages :
           unit' = [FIdle EXCEPT !.pc = "words", !.user_message = m]
    /\ UNCHANGED UnitEnv

\* mutant: the table is searched also when no word is left
F_WordsAlwaysSearch ==
    /\ unit.pc = "words"
    /\ unit' = [unit EXCEPT !.pc = "filter",
                            !.words = Words(unit.user_message)]
    /\ UNCHANGED UnitEnv

\* lines 302-307: the words, and the return when none is left
F_Words ==
    /\ unit.pc = "words"
    /\ LET words == Words(unit.user_message)
           f == fallback_answer(unit.user_message, corpus)
       IN unit' = IF words = <<>>
                  THEN [unit EXCEPT !.pc = "done", !.words = words,
                                    !.answer = f.answer,
                                    !.recipe_ids = f.recipe_ids]
                  ELSE [unit EXCEPT !.pc = "filter", !.words = words]
    /\ UNCHANGED UnitEnv

\* lines 309-330: the query on the table, and the two returns after it
F_Filter ==
    /\ unit.pc = "filter"
    /\ LET f == fallback_answer(unit.user_message, corpus)
       IN unit' = [unit EXCEPT !.pc = "done", !.db_queries = @ + 1,
                               !.answer = f.answer,
                               !.recipe_ids = f.recipe_ids]
    /\ UNCHANGED UnitEnv

F_Return ==
    /\ unit.pc = "done"
    /\ unit.fn = "fallback"
    /\ unit' = NoUnit
    /\ UNCHANGED UnitEnv

FallbackNext == F_Call \/ F_Words \/ F_Filter \/ F_Return

FallbackSpec == FallbackInit /\ [][FallbackNext]_vars

----------------------------------------------------------------------------
(* generate_answer_with_openai / generate_answer_with_gemini, called directly *)

GenRetrieved ==
    { <<>>,
      << [recipe_id |-> 1, title |-> RowPie.title,
          snippet |-> Snippet(_get_recipe_document(RowPie))] >>,
      << [recipe_id |-> 12, title |-> RowTea.title,
          snippet |-> Snippet(_get_recipe_document(RowTea))],
         [recipe_id |-> 3, title |-> RowStew.title,
          snippet |-> Snippet(_get_recipe_document(RowStew))] >> }

GIdle ==
    [pc |-> "idle", fn |-> "", user_message |-> <<>>, retrieved |-> <<>>,
     base_url |-> <<>>, answer |-> NoAnswer, called |-> FALSE]

GenerateInit ==
    /\ UnitInit
    /\ corpus = <<>>
    /\ nextPk = 1
    /\ index = <<>>

G_Call ==
    /\ unit.pc = "idle"
    /\ \E fn \in {"openai", "gemini"}, m \in Messages, r \in GenRetrieved,
          base_url \in BaseUrls :
           unit' = [GIdle EXCEPT !.pc = "run", !.fn = fn, !.user_message = m,
                                 !.retrieved = r, !.base_url = base_url]
    /\ UNCHANGED UnitEnv

G_Run ==
    /\ unit.pc = "run"
    /\ \E outcome \in GenOutcomes :
           LET g == Generate(unit.fn, unit.user_message, unit.retrieved,
                             unit.base_url, outcome)
           IN unit' = [unit EXCEPT !.pc = IF g.raised THEN "raised" ELSE "done",
                                   !.answer = g.answer, !.called = g.called]
    /\ UNCHANGED UnitEnv

G_Return ==
    /\ unit.pc \in {"done", "raised"}
    /\ unit.fn \in {"openai", "gemini"}
    /\ unit' = NoUnit
    /\ UNCHANGED UnitEnv

GenerateNext == G_Call \/ G_Run \/ G_Return

GenerateSpec == GenerateInit /\ [][GenerateNext]_vars

----------------------------------------------------------------------------
(* ChatAPIView.post: the chat endpoint around get_rag_response *)

\* request bodies: not JSON; JSON that is no object; an object without a
\* message (or with an empty one); an object with a message
Bodies ==
    { [kind |-> "invalid", message |-> <<>>],
      [kind |-> "not_object", message |-> <<>>],
      [kind |-> "object", message |-> <<>>] }
    \cup { [kind |-> "object", message |-> m] : m \in Messages }

VIdle ==
    [pc |-> "idle", body |-> [kind |-> "", message |-> <<>>], before |-> <<>>,
     rag_calls |-> 0, creates |-> 0, response |-> NoAnswer,
     retrieved_docs |-> <<>>, confidence |-> 0, status |-> 0]

\* the tables and indexes a request can meet
ChatCorpora == {c \in UnitCorpora : DOMAIN c \subseteq {1}}

ChatInit ==
    /\ geminiKey \in BOOLEAN
    /\ openaiKey \in BOOLEAN
    /\ genaiInstalled \in (IF geminiKey THEN BOOLEAN ELSE {TRUE})
    /\ dirExists \in BOOLEAN
    /\ collExists = dirExists
    /\ corpus \in ChatCorpora
    /\ nextPk = 2
    /\ index \in (IF dirExists
                  THEN {<<>>, IndexOf(corpus, IF geminiKey
                                              THEN GeminiFn("RETRIEVAL_DOCUMENT")
                                              ELSE OpenAIFn)}
                  ELSE {<<>>})
    /\ q = QIdle
    /\ ix = IxIdle
    /\ prev = NoRun
    /\ edits = 0
    /\ unit = NoUnit
    /\ view = VIdle
    /\ chats = <<>>
    /\ q2 = QIdle

VEnv == <<geminiKey, openaiKey, genaiInstalled, dirExists, corpus, collExists,
          nextPk, index, ix, prev, edits, unit, q2>>

V_Request ==
    /\ view.pc = "idle"
    /\ Len(chats) < MaxChats
    /\ \E body \in Bodies :
           view' = [VIdle EXCEPT !.pc = "parse", !.body = body,
                                 !.before = chats]
    /\ UNCHANGED <<VEnv, q, chats>>

\* lines 39-47: json.loads, data.get, the empty-message test, and the call
V_Parse ==
    /\ view.pc = "parse"
    /\ q.pc = "idle"
    /\ IF view.body.kind = "invalid"
       THEN /\ view' = [view EXCEPT !.pc = "responded", !.status = 400]
            /\ UNCHANGED q
       ELSE IF view.body.kind = "not_object"
       THEN /\ view' = [view EXCEPT !.pc = "responded", !.status = 500]
            /\ UNCHANGED q
       ELSE IF view.body.message = <<>>
       THEN /\ view' = [view EXCEPT !.pc = "responded", !.status = 400]
            /\ UNCHANGED q
       ELSE /\ view' = [view EXCEPT !.pc = "rag", !.rag_calls = @ + 1]
            /\ q' = [QIdle EXCEPT !.pc = "select",
                                  !.user_message = view.body.message]
    /\ UNCHANGED <<VEnv, chats>>

\* mutant: the row is written without the confidence
ChatRowNoConfidence(message, response) ==
    [message |-> message, response |-> response.answer,
     retrieved_docs |-> response.retrieved_docs,
     confidence_score |-> 0]

\* the row ChatHistory.objects.create is called with, lines 50-57
ChatRow(message, response) ==
    [message |-> message, response |-> response.answer,
     retrieved_docs |-> response.retrieved_docs,
     confidence_score |-> response.confidence]

\* lines 47-68: the result of get_rag_response, the row, the response
V_Save ==
    /\ view.pc = "rag"
    /\ q.pc \in {"done", "raised"}
    /\ \E created \in BOOLEAN :
           IF q.pc = "done" /\ created
           THEN /\ chats' = Append(chats, ChatRow(view.body.message, q))
                /\ view' = [view EXCEPT !.pc = "responded", !.status = 200,
                                        !.creates = @ + 1,
                                        !.response = q.answer,
                                        !.retrieved_docs = q.retrieved_docs,
                                        !.confidence = q.confidence]
           ELSE /\ view' = [view EXCEPT !.pc = "responded", !.status = 500,
                                        !.creates = IF q.pc = "done" THEN @ + 1
                                                    ELSE @,
                                        !.response = q.answer,
                                        !.retrieved_docs = q.retrieved_docs,
                                        !.confidence = q.confidence]
                /\ UNCHANGED chats
    /\ q' = QIdle
    /\ UNCHANGED VEnv

V_Done ==
    /\ view.pc = "responded"
    /\ view' = VIdle
    /\ UNCHANGED <<VEnv, q, chats>>

ChatNext ==
    \/ V_Request \/ V_Parse \/ V_Save \/ V_Done
    \/ Q_Select \/ Q_Open \/ Q_Count \/ Q_Retrieve \/ Q_Query \/ Q_Generate
    \/ Q_Fallback \/ Q_Resolve

ChatSpec == ChatInit /\ [][ChatNext]_vars

----------------------------------------------------------------------------
(* Properties of get_rag_response *)

QEnded == q.pc \in {"done", "raised"}

FallbackKinds == {"ask_me", "no_match", "found"}

GeneratorKinds ==
    {"generated", "could_not_generate", "no_openai_key", "no_gemini_key",
     "install_genai"}

RaisedWhy == {"embed_raised", "query_raised", "generate_raised"}

NoRagWhy ==
    {"no_embedding_fn", "no_directory", "open_failed", "count_failed",
     "empty_index"}

\* the selected provider has no credential (or, for Gemini, no package)
ProviderAbsent == IF geminiKey THEN ~genaiInstalled ELSE ~openaiKey

NoBackendCall ==
    q.embed_calls = <<>> /\ q.query_calls = <<>> /\ q.gen_calls = <<>>

\* the result is what the keyword fallback found: its answer, and its id
\* list resolved to titles in the same order
IsFallbackResult ==
    /\ q.fallback_calls = 1
    /\ q.answer.kind \in FallbackKinds
    /\ q.answer.kind = "found" <=> q.recipe_ids /= <<>>
    /\ Len(q.retrieved_docs) = Len(q.recipe_ids)
    /\ \A i \in 1..Len(q.recipe_ids) :
           /\ q.retrieved_docs[i].recipe_id = q.recipe_ids[i]
           /\ q.retrieved_docs[i].title = TitleOf(corpus, q.recipe_ids[i])

\* C1: every call of get_rag_response ends by returning an answer, a
\* retrieved list and a confidence; no exception reaches the caller, whatever
\* backend fails (provider construction included).
C1_AlwaysReturns ==
    QEnded =>
        /\ q.pc = "done"
        /\ q.answer /= NoAnswer
        /\ q.confidence \in {ConfHit, ConfNoHit, ConfException, ConfNoRag}

\* C2: when retrieval returns a non-empty sequence, the generator is called
\* once, with exactly that sequence; when the generator returns (C5 is the
\* case where it raises), the confidence is 0.9 and the retrieved list is
\* the snippets projected to {recipe_id, title}, same order, same length.
C2_HitPath ==
    (q.pc = "done" /\ q.retrieval = "returned" /\ q.retrieved /= <<>>) =>
        /\ q.gen_calls = <<q.retrieved>>
        /\ q.why /= "generate_raised" =>
               /\ q.confidence = ConfHit
               /\ q.answer.kind \in GeneratorKinds
               /\ q.fallback_calls = 0
               /\ Len(q.retrieved_docs) = Len(q.retrieved)
               /\ \A i \in 1..Len(q.retrieved) :
                      q.retrieved_docs[i] =
                          [recipe_id |-> q.retrieved[i].recipe_id,
                           title |-> q.retrieved[i].title]

C2_Witness ==
    /\ q.pc = "done" /\ q.retrieval = "returned" /\ Len(q.retrieved) = 2
    /\ q.confidence = ConfHit
    /\ q.retrieved_docs[1].recipe_id /= q.retrieved_docs[2].recipe_id

\* C3: when the vector path is usable but retrieval returns an empty
\* sequence, the generator is called once with an empty list; when it
\* returns, the keyword fallback has not run, the confidence is 0.6 and
\* the retrieved list is empty.
C3_NoHitPath ==
    (q.pc = "done" /\ q.use_rag /\ q.retrieval = "returned"
                   /\ q.retrieved = <<>>) =>
        /\ Len(q.gen_calls) = 1 /\ q.gen_calls[1] = <<>>
        /\ q.why /= "generate_raised" =>
               /\ q.fallback_calls = 0
               /\ q.answer.kind \in GeneratorKinds
               /\ q.confidence = ConfNoHit
               /\ q.retrieved_docs = <<>>

C3_Witness ==
    /\ q.pc = "done" /\ q.use_rag /\ q.retrieval = "returned"
    /\ q.retrieved = <<>> /\ Len(index) > 0
    /\ q.confidence = ConfNoHit /\ q.answer.kind = "generated"

\* C4: if no embedding function is available, or the index directory does
\* not exist, or opening or counting the index fails, or the index is
\* empty, the call makes no embedding, index-query or generation call and
\* returns the keyword-fallback answer with confidence 0.6 and the
\* fallback's ids resolved to titles.
C4_NoRagFallsBack ==
    (QEnded /\ (ProviderAbsent \/ ~dirExists
                \/ q.why \in {"open_failed", "count_failed", "empty_index"})) =>
        /\ q.pc = "done"
        /\ NoBackendCall
        /\ q.confidence = ConfNoRag
        /\ IsFallbackResult

\* C4, as far as the code goes: once provider selection has returned, the
\* statement of C4 holds.
C4_HoldsOnceSelected ==
    (q.pc = "done" /\ q.why \in NoRagWhy) =>
        /\ NoBackendCall
        /\ q.confidence = ConfNoRag
        /\ IsFallbackResult

\* C5: after the index was opened and found non-empty, an exception of the
\* query embedding, the index query or the generation call is caught: the
\* call returns the keyword-fallback answer with confidence 0.5 and the
\* fallback's ids resolved to titles; 0.5 is returned in no other case.
C5_ExceptionPath ==
    /\ (q.pc = "done" /\ q.why \in RaisedWhy) =>
           (q.confidence = ConfException /\ IsFallbackResult)
    /\ (q.pc = "done" /\ q.confidence = ConfException) =>
           (q.why \in RaisedWhy /\ q.use_rag /\ q.handle /= "none")
    /\ q.pc = "raised" => (q.handle = "none" /\ q.why = "")

C5_Witness ==
    /\ q.pc = "done" /\ q.why = "generate_raised"
    /\ q.confidence = ConfException /\ q.recipe_ids /= <<>>
    /\ q.retrieved /= <<>>

----------------------------------------------------------------------------
(* Properties of the indexing command *)

\* the query vectors of the messages, for either provider
QueryVectors ==
    { EmbedOne(fn, Strip(m)) :
          fn \in {GeminiFn("RETRIEVAL_QUERY"), OpenAIFn}, m \in Messages }

\* C7: a run without --clear that follows a completed run over the same,
\* unchanged table returns the table's size as its count (as every completed
\* run does) and leaves an index that answers every query as before it:
\* same ids, same documents, same order.
C7_IdempotentIndexing ==
    (ix.pc = "done" /\ ix.outcome = "indexed") =>
        /\ ix.count = Cardinality(DOMAIN ix.recipes)
        /\ (ix.repeat /\ ~ix.clear) =>
               \A qv \in QueryVectors, n \in 1..TopN :
                   CollectionQuery(index, qv, n) =
                       CollectionQuery(ix.before, qv, n)

C7_Witness ==
    /\ ix.pc = "done" /\ ix.outcome = "indexed" /\ ix.repeat /\ ~ix.clear
    /\ ix.added /\ ix.count = 2 /\ Len(index) = 2

\* C8: the index holds at most one entry per id, and after a run the entry
\* of each row holds the document and the embedding built from the row as
\* that run read it: an entry stored before under the id is overwritten.
C8_OverwritesById ==
    /\ \A i, j \in 1..Len(index) : index[i].id = index[j].id => i = j
    /\ (ix.pc = "done" /\ ix.outcome = "indexed") =>
           \A pk \in DOMAIN ix.recipes :
               \E i \in 1..Len(index) :
                   /\ index[i].id = Str(pk)
                   /\ index[i].document = _get_recipe_document(ix.recipes[pk])
                   /\ index[i].embedding =
                          EmbedOne(ix.embedding_fn,
                                   _get_recipe_document(ix.recipes[pk]))

\* C9 as claimed: when the batch embedding call fails the run reports a
\* count of 0 and the index is as it was before the run, with or without
\* --clear.
C9_EmbedFailureLeavesIndex ==
    (ix.pc = "done" /\ ix.why = "embed") =>
        /\ ix.outcome = "indexed" /\ ix.count = 0
        /\ index = ix.before

\* C9, amended: when the batch embedding call fails the run ends with the
\* exception (no count is reported) and has added nothing; without --clear
\* the index is as it was before the run; with --clear it is empty when the
\* deletion went through, and as before the run when it did not.
C9_EmbedFailureAborts ==
    (ix.pc = "done" /\ ix.why = "embed") =>
        /\ ix.outcome = "raised" /\ ix.count = -1
        /\ ~ix.added
        /\ ~ix.clear => (~ix.deleted /\ index = ix.before)
        /\ ix.clear => index = (IF ix.deleted THEN <<>> ELSE ix.before)

C9_Witness ==
    /\ ix.pc = "done" /\ ix.why = "embed" /\ ix.clear /\ ix.deleted
    /\ ix.before /= <<>> /\ index = <<>>

\* C10: indexing an empty table returns 0 without raising, without a call of
\* the embedding function and without writing an entry to the index.
C10_EmptyCorpus ==
    (ix.pc \in {"embed", "add", "done"} /\ ix.handle = "live"
                                       /\ DOMAIN ix.recipes = {}) =>
        /\ ix.pc = "done"
        /\ ix.outcome = "indexed" /\ ix.count = 0
        /\ ix.embed_calls = <<>>
        /\ ~ix.added
        /\ index = (IF ix.deleted THEN <<>> ELSE ix.before)

C10_Witness ==
    /\ ix.pc = "done" /\ ix.handle = "live" /\ DOMAIN ix.recipes = {}
    /\ ix.outcome = "indexed" /\ ix.count = 0 /\ ix.before /= <<>>
    /\ ~ix.clear

----------------------------------------------------------------------------
(* Properties of retrieve_relevant_recipes, called directly *)

Retrieving == unit.pc /= "idle" /\ unit.fn = "retrieve"

Retrieved == unit.pc = "done" /\ unit.fn = "retrieve"

\* C11: a call with an empty or whitespace-only query returns an empty
\* sequence at once: no embedding call, no count and no query on the index,
\* whatever the index holds.
C11_BlankQuery ==
    (Retrieving /\ Strip(unit.query) = <<>>) =>
        /\ unit.pc \in {"guard", "done"}
        /\ unit.count_calls = 0
        /\ unit.embed_calls = <<>>
        /\ unit.query_calls = <<>>
        /\ unit.pc = "done" => unit.out = <<>>

C11_Witness ==
    /\ Retrieved /\ unit.query = <<" ", " ">> /\ Len(index) > 1
    /\ unit.out = <<>> /\ unit.count_calls = 0

\* C12: on an index of 0 entries a call returns an empty sequence for every
\* query text, and the size is tested before the query is embedded: the
\* embedding function is not called.
C12_EmptyIndex ==
    (Retrieving /\ index = <<>>) =>
        /\ unit.pc \in {"guard", "count", "done"}
        /\ unit.embed_calls = <<>>
        /\ unit.query_calls = <<>>
        /\ unit.pc = "done" => unit.out = <<>>

C12_Witness ==
    /\ Retrieved /\ index = <<>> /\ Strip(unit.query) /= <<>>
    /\ unit.count_calls = 1 /\ unit.out = <<>>

\* C13: for a non-empty query on a non-empty index (every call on a backend
\* returning), the trimmed query is embedded once, the index is asked for
\* min(n, index size) neighbours, and the result is one snippet per hit in
\* the order of the index's answer, nothing dropped; a result never has more
\* than min(n, index size) entries.
C13_RankedAsReturned ==
    /\ Retrieved => Len(unit.out) <= Min(unit.n, Len(index))
    /\ (Retrieved /\ Strip(unit.query) /= <<>> /\ unit.total > 0) =>
           /\ unit.embed_calls = << <<Strip(unit.query)>> >>
           /\ Len(unit.query_calls) = 1
           /\ unit.query_calls[1].n_results = Min(unit.n, Len(index))
           /\ unit.query_calls[1].query_embedding =
                  EmbedOne(unit.embedding_fn, Strip(unit.query))
           /\ Len(unit.out) = Len(unit.results.ids[1])
           /\ Len(unit.out) = Min(unit.n, Len(index))
           /\ \A i \in 1..Len(unit.out) :
                  /\ unit.out[i].recipe_id =
                         unit.results.metadatas[1][i].recipe_id
                  /\ Str(unit.out[i].recipe_id) = unit.results.ids[1][i]
                  /\ unit.out[i].title = unit.results.metadatas[1][i].title
                  /\ Take(unit.out[i].snippet, 20) =
                         Take(unit.results.documents[1][i], 20)
           /\ \A i \in 1..(Len(unit.out) - 1) :
                  unit.results.distances[1][i] <= unit.results.distances[1][i + 1]

C13_Witness ==
    /\ Retrieved /\ unit.n = TopN /\ Len(index) = 6 /\ Len(unit.out) = 5
    /\ unit.query = <<" ","p","i","e","\n">>
    /\ unit.out[1].recipe_id /= unit.out[5].recipe_id
    /\ \E i \in 1..4 :
           unit.results.distances[1][i] = unit.results.distances[1][i + 1]

\* C14: for every hit, a stored text of more than 300 characters gives the
\* snippet of its first 300 characters followed by "..."; a stored text of
\* 300 characters or fewer gives the text itself, unmarked.
C14_Truncation ==
    Retrieved =>
        \A i \in 1..Len(unit.out) :
            LET doc == unit.results.documents[1][i]
                snippet == unit.out[i].snippet
            IN IF Len(doc) > 300
               THEN /\ Len(snippet) = 303
                    /\ SubSeq(snippet, 1, 300) = SubSeq(doc, 1, 300)
                    /\ SubSeq(snippet, 301, 303) = <<".", ".", ".">>
               ELSE snippet = doc

C14_Witness ==
    /\ Retrieved
    /\ \E i, j, k \in 1..Len(unit.out) :
           /\ Len(unit.results.documents[1][i]) = 300
           /\ Len(unit.out[i].snippet) = 300
           /\ Len(unit.results.documents[1][j]) = 301
           /\ Len(unit.out[j].snippet) = 303
           /\ Len(unit.results.documents[1][k]) < 300

----------------------------------------------------------------------------
(* Properties of fallback_answer, called directly *)

FellBack == unit.pc = "done" /\ unit.fn = "fallback"

\* the whitespace-separated tokens of the message, and the positions of
\* those longer than two characters
Tokens == Split(unit.user_message)

LongAt == {i \in 1..Len(Tokens) : Len(Tokens[i]) > 2}

RankOf(i) == Cardinality({j \in LongAt : j <= i})

\* the rows of the table that hold one of the words in one of the three fields
Matching ==
    {pk \in DOMAIN corpus :
        \E i \in 1..Len(unit.words) :
            LET w == Lower(unit.words[i])
            IN \/ Contains(Lower(corpus[pk].title), w)
               \/ Contains(Lower(corpus[pk].description), w)
               \/ Contains(Lower(corpus[pk].instructions), w)}

\* C15: the message is split on whitespace, every token of length 2 or less
\* is dropped first, and then at most the first 5 of the remaining tokens
\* are kept, in message order.
C15_FilterThenSlice ==
    (unit.fn = "fallback" /\ unit.pc \in {"filter", "done"}) =>
        /\ \A i \in 1..Len(Tokens) :
               Tokens[i] /= <<>> /\ \A k \in 1..Len(Tokens[i]) :
                                        ~IsSpace(Tokens[i][k])
        /\ Len(unit.words) = Min(5, Cardinality(LongAt))
        /\ \A i \in LongAt : RankOf(i) <= 5 => unit.words[RankOf(i)] = Tokens[i]

C15_Witness ==
    /\ FellBack /\ Len(Tokens) = 6 /\ LongAt = {6}
    /\ unit.words = << <<"t","e","a">> >>
    /\ unit.recipe_ids = <<5>>

\* C16: when no token is left after the length filter, the result is the
\* fixed instructional message and an empty id list, and the table is not
\* queried.
C16_NoWords ==
    (FellBack /\ LongAt = {}) =>
        /\ unit.answer.kind = "ask_me"
        /\ unit.recipe_ids = <<>>
        /\ unit.db_queries = 0

C16_Witness ==
    /\ FellBack /\ Len(Tokens) = 2 /\ LongAt = {} /\ Cardinality(DOMAIN corpus) = 6
    /\ unit.answer.kind = "ask_me" /\ unit.db_queries = 0

\* C17: with a word left, the ids returned are those of the rows holding at
\* least one word in title, description or instructions, case-insensitively:
\* each row once, newest first (the table's ordering), the first 5 of them;
\* a row that matches in no field is not returned.
C17_Selection ==
    (FellBack /\ unit.words /= <<>>) =>
        /\ unit.db_queries = 1
        /\ Len(unit.recipe_ids) = Min(5, Cardinality(Matching))
        /\ \A i \in 1..Len(unit.recipe_ids) : unit.recipe_ids[i] \in Matching
        /\ \A i \in 1..(Len(unit.recipe_ids) - 1) :
               unit.recipe_ids[i] > unit.recipe_ids[i + 1]
        /\ \A pk \in Matching :
               \/ \E i \in 1..Len(unit.recipe_ids) : unit.recipe_ids[i] = pk
               \/ \A i \in 1..Len(unit.recipe_ids) : pk < unit.recipe_ids[i]

C17_Witness ==
    /\ FellBack /\ Len(unit.words) = 3
    /\ Cardinality(Matching) = 6 /\ unit.recipe_ids = <<6, 5, 4, 3, 2>>

\* the commas of a text
Commas(text) == Cardinality({i \in 1..Len(text) : text[i] = ","})

\* C18: the two outputs agree.  No row selected: the no-match message,
\* naming the message as given, and an empty id list.  Otherwise: the
\* message that lists the titles of the selected rows joined by ", ", and
\* the ids of exactly those rows in that order, as many ids as titles.
C18_OutputsAgree ==
    (FellBack /\ unit.words /= <<>>) =>
        /\ Matching = {} =>
               /\ unit.answer.kind = "no_match"
               /\ unit.answer.text = unit.user_message
               /\ unit.recipe_ids = <<>>
        /\ Matching /= {} =>
               /\ unit.answer.kind = "found"
               /\ unit.answer.n = Len(unit.recipe_ids)
               /\ Commas(unit.answer.text) = Len(unit.recipe_ids) - 1
               /\ unit.answer.text =
                      Join([i \in 1..Len(unit.recipe_ids) |->
                               corpus[unit.recipe_ids[i]].title], <<",", " ">>)

C18_Witness ==
    /\ FellBack /\ unit.answer.kind = "found" /\ unit.answer.n = 5
    /\ Len(unit.recipe_ids) = 5 /\ Cardinality(Matching) = 6
    /\ Commas(unit.answer.text) = 4

----------------------------------------------------------------------------
(* Properties of the embedding functions and of the answer generators *)

\* C19: an embedding function, given non-empty texts, returns one vector per
\* text in input order or raises; it never hands back vectors without
\* components in place of a failure or of a missing backend result.
C19_VectorsOrRaise ==
    /\ ix.pc = "add" =>
           /\ Len(ix.embeddings) = Len(ix.documents)
           /\ \A i \in 1..Len(ix.embeddings) : ix.embeddings[i] /= <<>>
    /\ q.pc = "query" => q.query_embedding /= <<>>

\* C20: an answer generator whose backend has no credential configured
\* returns its fixed message naming the missing credential, as a normal
\* return value: it does not raise and makes no call on the backend.
C20_NoCredentialMessage ==
    /\ (unit.fn = "openai" /\ unit.pc \in {"done", "raised"} /\ ~openaiKey) =>
           /\ unit.pc = "done"
           /\ unit.answer.kind = "no_openai_key"
           /\ ~unit.called
    /\ (unit.fn = "gemini" /\ unit.pc \in {"done", "raised"} /\ ~geminiKey) =>
           /\ unit.pc = "done"
           /\ unit.answer.kind = "no_gemini_key"
           /\ ~unit.called

C20_Witness ==
    /\ unit.fn = "openai" /\ unit.pc = "done" /\ ~openaiKey /\ geminiKey
    /\ unit.retrieved /= <<>> /\ unit.answer.kind = "no_openai_key"

----------------------------------------------------------------------------
(* Properties of the chat endpoint *)

Rejected ==
    view.body.kind = "invalid"
    \/ (view.body.kind = "object" /\ view.body.message = <<>>)

\* C21: a completed chat turn (a 200 response) has created exactly one
\* ChatHistory row, holding the answer, the retrieved list and the
\* confidence get_rag_response returned; the rows there before are as they
\* were; a request that fails creates none; a request rejected for invalid
\* JSON or an empty message does not call get_rag_response and creates none.
C21_OneExchangePerTurn ==
    /\ view.pc /= "idle" =>
           /\ Len(chats) >= Len(view.before)
           /\ SubSeq(chats, 1, Len(view.before)) = view.before
    /\ view.pc \in {"parse", "rag"} => chats = view.before
    /\ (view.pc = "responded" /\ view.status = 200) =>
           /\ view.rag_calls = 1 /\ view.creates = 1
           /\ Len(chats) = Len(view.before) + 1
           /\ chats[Len(chats)].message = view.body.message
           /\ chats[Len(chats)].response = view.response
           /\ chats[Len(chats)].retrieved_docs = view.retrieved_docs
           /\ chats[Len(chats)].confidence_score = view.confidence
           /\ view.confidence \in {ConfHit, ConfNoHit, ConfException, ConfNoRag}
    /\ (view.pc = "responded" /\ view.status /= 200) => chats = view.before
    /\ (view.pc = "responded" /\ Rejected) =>
           /\ view.status = 400
           /\ view.rag_calls = 0 /\ view.creates = 0

C21_Witness ==
    /\ view.pc = "responded" /\ view.status = 200 /\ Len(view.before) = 1
    /\ Len(chats) = 2 /\ chats[2].confidence_score = ConfHit
    /\ chats[2].retrieved_docs /= <<>>
    /\ chats[1].confidence_score = ConfNoRag

----------------------------------------------------------------------------
(* Properties of the embedding modes and of the grounding context *)

\* the mode of the requests of an embedding function; the OpenAI requests
\* carry no mode
ModeOf(fn) == fn.task_type

\* C22: the modes are never mixed.  Every embedding request of an indexing
\* run is made in document mode and every embedding request of
\* get_rag_response in query mode, for the Gemini functions; the OpenAI
\* function has no mode, in either caller.
C22_ModesNotMixed ==
    /\ ix.embed_calls /= <<>> =>
           ModeOf(ix.embedding_fn) =
               (IF geminiKey THEN "RETRIEVAL_DOCUMENT" ELSE "n/a")
    /\ q.embed_calls /= <<>> =>
           ModeOf(q.embedding_fn) =
               (IF geminiKey THEN "RETRIEVAL_QUERY" ELSE "n/a")
    /\ \A i \in 1..Len(index) : index[i].embedding[2] = 0
    /\ (q.pc = "query" /\ q.query_embedding /= <<>>) =>
           q.query_embedding[2] = (IF geminiKey THEN 1 ELSE 0)

C22_Witness ==
    /\ geminiKey /\ q.pc = "query" /\ q.query_embedding /= <<>>
    /\ q.query_embedding[2] = 1
    /\ Len(index) = 2 /\ index[1].embedding[2] = 0
    /\ q.embed_calls /= <<>>

\* a call of a generator that asked its backend and got a text
Generated ==
    /\ unit.fn \in {"openai", "gemini"} /\ unit.pc = "done"
    /\ unit.answer.kind = "generated"

\* position at which the block of the k-th snippet starts in the prompt, 0
\* when the prompt does not hold it after the blocks before it
RECURSIVE BlockStart(_, _, _)
BlockStart(text, retrieved, k) ==
    LET r == retrieved[k]
        block == <<"[","R","e","c","i","p","e",":"," ">> \o r.title
                     \o <<" ","(","I","D",":"," ">> \o Str(r.recipe_id)
                     \o <<")","]","\n">> \o r.snippet
        after == IF k = 1 THEN 1 ELSE BlockStart(text, retrieved, k - 1)
        at == {i \in (after + 1)..Len(text) :
                  i + Len(block) - 1 <= Len(text)
                  /\ SubSeq(text, i, i + Len(block) - 1) = block}
    IN IF after = 0 \/ at = {} THEN 0
       ELSE CHOOSE i \in at : \A j \in at : i <= j

\* the link of a snippet: base URL, "/", id, "/"
LinkOf(base_url, r) == base_url \o <<"/">> \o Str(r.recipe_id) \o <<"/">>

\* C23, the blocks: the prompt holds, for each retrieved snippet in order,
\* one block naming the title, the id and the snippet text.
C23_BlocksInOrder ==
    (Generated /\ unit.retrieved /= <<>>) =>
        BlockStart(unit.answer.text, unit.retrieved, Len(unit.retrieved)) > 0

\* C23: the grounding context has, for each retrieved snippet in order, one
\* block naming the title, the id and the snippet text, and when a base URL
\* is supplied the block carries the link built from the base URL and the id.
C23_BlocksWithLinks ==
    (Generated /\ unit.retrieved /= <<>>) =>
        /\ BlockStart(unit.answer.text, unit.retrieved, Len(unit.retrieved)) > 0
        /\ unit.base_url /= <<>> =>
               \A k \in 1..Len(unit.retrieved) :
                   Contains(unit.answer.text,
                            LinkOf(unit.base_url, unit.retrieved[k]))


----------------------------------------------------------------------------
(* Two get_rag_response calls at once: the web server runs each request in  *)
(* its own thread, and each call has its own locals, its own client and its *)
(* own collection object.  q2 takes the steps of q.                         *)

Q2Env == <<geminiKey, openaiKey, genaiInstalled, dirExists, corpus, nextPk,
           ix, prev, edits, unit, view, chats, q>>

Q2_Start ==
    /\ q2.pc = "idle"
    /\ ix.pc = "idle"
    /\ \E m \in Messages :
           q2' = [QIdle EXCEPT !.pc = "select", !.user_message = m]
    /\ UNCHANGED <<Q2Env, collExists, index>>

\* lines 356-364: provider selection and use_rag
Q2_Select ==
    /\ q2.pc = "select"
    /\ \E constructed \in BOOLEAN :
           LET sel == SelectQueryProvider(constructed)
               use_rag == sel.built.fn /= None /\ dirExists
           IN q2' = IF sel.built.raised
                   THEN [q2 EXCEPT !.pc = "raised", !.raised = "provider",
                                  !.use_gemini = sel.use_gemini,
                                  !.generate_fn = sel.generate_fn]
                   ELSE [q2 EXCEPT !.pc = IF use_rag THEN "open" ELSE "fallback",
                                  !.use_gemini = sel.use_gemini,
                                  !.generate_fn = sel.generate_fn,
                                  !.embedding_fn = sel.built.fn,
                                  !.use_rag = use_rag,
                                  !.branch = IF use_rag THEN "" ELSE "else",
                                  !.why = IF use_rag THEN ""
                                          ELSE IF sel.built.fn = None
                                               THEN "no_embedding_fn"
                                               ELSE "no_directory"]
    /\ UNCHANGED <<Q2Env, collExists, index>>

\* line 368: collection = get_chroma_collection(persist_dir, embedding_fn)
Q2_Open ==
    /\ q2.pc = "open"
    /\ \/ /\ GetOrCreate
          /\ q2' = [q2 EXCEPT !.pc = "count", !.handle = "live"]
       \/ /\ q2' = [q2 EXCEPT !.pc = "fallback", !.use_rag = FALSE,
                            !.branch = "else", !.why = "open_failed"]
          /\ UNCHANGED <<collExists, index>>
    /\ UNCHANGED Q2Env

\* lines 369-372: if collection.count() == 0: use_rag = False
Q2_Count ==
    /\ q2.pc = "count"
    /\ \E ok \in BOOLEAN :
           q2' = IF ~ok \/ ~Usable(q2.handle)
                THEN [q2 EXCEPT !.pc = "fallback", !.use_rag = FALSE,
                               !.branch = "else", !.why = "count_failed"]
                ELSE IF CollectionCount(index) = 0
                THEN [q2 EXCEPT !.pc = "fallback", !.use_rag = FALSE,
                               !.branch = "else", !.why = "empty_index"]
                ELSE [q2 EXCEPT !.pc = "retrieve"]
    /\ UNCHANGED <<Q2Env, collExists, index>>

\* retrieve_relevant_recipes, lines 169-178: the guards, then the embedding
\* of the query
Q2_Retrieve ==
    /\ q2.pc = "retrieve"
    /\ \E counted \in BOOLEAN, result \in BackendResults(q2.embedding_fn) :
           LET total == IF counted /\ Usable(q2.handle)
                        THEN CollectionCount(index) ELSE 0
               texts == <<Strip(q2.user_message)>>
               e == CallEmbed(q2.embedding_fn, texts, result)
           IN q2' = IF Strip(q2.user_message) = <<>>
                   THEN [q2 EXCEPT !.pc = "generate", !.retrieved = <<>>,
                                  !.retrieval = "returned"]
                   ELSE IF total = 0
                   THEN [q2 EXCEPT !.pc = "generate", !.retrieved = <<>>,
                                  !.retrieval = "returned", !.total = 0]
                   ELSE IF e.raised
                   THEN [q2 EXCEPT !.pc = "fallback", !.branch = "except",
                                  !.retrieval = "raised",
                                  !.why = "embed_raised", !.total = total,
                                  !.embed_calls = Append(@, texts)]
                   ELSE [q2 EXCEPT !.pc = "query", !.total = total,
                                  !.embed_calls = Append(@, texts),
                                  !.query_embedding = e.vectors[1]]
    /\ UNCHANGED <<Q2Env, collExists, index>>

\* retrieve_relevant_recipes, lines 179-200: the index query and the snippets;
\* the collection rejects a query vector without components
Q2_Query ==
    /\ q2.pc = "query"
    /\ \E ok \in BOOLEAN :
           LET n_results == Min(TopN, q2.total)
               call == [query_embedding |-> q2.query_embedding,
                        n_results |-> n_results]
               results == CollectionQuery(index, q2.query_embedding, n_results)
           IN q2' = IF ~ok \/ ~Usable(q2.handle) \/ q2.query_embedding = <<>>
                   THEN [q2 EXCEPT !.pc = "fallback", !.branch = "except",
                                  !.retrieval = "raised",
                                  !.why = "query_raised",
                                  !.query_calls = Append(@, call)]
                   ELSE [q2 EXCEPT !.pc = "generate",
                                  !.retrieval = "returned",
                                  !.query_calls = Append(@, call),
                                  !.retrieved = ToSnippets(results)]
    /\ UNCHANGED <<Q2Env, collExists, index>>

\* lines 379-389: the answer generator on the retrieved snippets.  base_url
\* (lines 347-349) is an input of the call that nothing reads before this
\* step, so its value is drawn here.
Q2_Generate ==
    /\ q2.pc = "generate"
    /\ \E outcome \in GenOutcomes, base_url \in BaseUrls :
           LET arg == IF q2.retrieved /= <<>> THEN q2.retrieved ELSE <<>>
               g == Generate(q2.generate_fn, q2.user_message, arg, base_url,
                             outcome)
           IN q2' = IF g.raised
                   THEN [q2 EXCEPT !.pc = "fallback", !.branch = "except",
                                  !.why = "generate_raised",
                                  !.base_url = base_url,
                                  !.gen_calls = Append(@, arg)]
                   ELSE [q2 EXCEPT !.pc = "done",
                                  !.base_url = base_url,
                                  !.gen_calls = Append(@, arg),
                                  !.answer = g.answer,
                                  !.confidence = GenConfidence(q2.retrieved),
                                  !.retrieved_docs = ProjectDocs(arg)]
    /\ UNCHANGED <<Q2Env, collExists, index>>

\* lines 391 and 398: answer, recipe_ids = fallback_answer(user_message, Recipe)
Q2_Fallback ==
    /\ q2.pc = "fallback"
    /\ LET f == fallback_answer(q2.user_message, corpus)
       IN q2' = [q2 EXCEPT !.pc = "resolve", !.answer = f.answer,
                         !.recipe_ids = f.recipe_ids,
                         !.fallback_calls = @ + 1]
    /\ UNCHANGED <<Q2Env, collExists, index>>

\* lines 392-396 and 399-403: the ids resolved to titles, and the confidence
Q2_Resolve ==
    /\ q2.pc = "resolve"
    /\ q2' = [q2 EXCEPT !.pc = "done",
                      !.retrieved_docs = ResolveTitles(corpus, q2.recipe_ids),
                      !.confidence = FallbackConfidence(q2.branch)]
    /\ UNCHANGED <<Q2Env, collExists, index>>

\* the call is over: the result was returned, or the exception is the caller's
Q2_Return ==
    /\ q2.pc \in {"done", "raised"}
    /\ q2' = QIdle
    /\ UNCHANGED <<Q2Env, collExists, index>>

\* the last finished index_recipes run that a pair of calls can meet
Indexed == [outcome |-> "indexed", changed |-> FALSE]

\* the function the command embeds documents with
DocumentFn ==
    IF geminiKey THEN GeminiFn("RETRIEVAL_DOCUMENT") ELSE OpenAIFn

\* the table is not edited and no command runs; the index is that of a
\* finished run over the table, or was never built
PairInit ==
    /\ geminiKey \in BOOLEAN
    /\ openaiKey \in BOOLEAN
    /\ genaiInstalled \in (IF geminiKey THEN BOOLEAN ELSE {TRUE})
    /\ corpus \in ChatCorpora
    /\ nextPk = 2
    /\ prev \in {NoRun, Indexed}
    /\ dirExists \in (IF prev = Indexed THEN {TRUE} ELSE BOOLEAN)
    /\ collExists = (prev = Indexed)
    /\ index = IF prev = Indexed THEN IndexOf(corpus, DocumentFn) ELSE <<>>
    /\ q = QIdle
    /\ q2 = QIdle
    /\ ix = IxIdle
    /\ edits = 0
    /\ unit = NoUnit
    /\ view = NoRequest
    /\ chats = <<>>

PairNext ==
    \/ Q_Start \/ Q_Select \/ Q_Open \/ Q_Count \/ Q_Retrieve \/ Q_Query
    \/ Q_Generate \/ Q_Fallback \/ Q_Resolve \/ Q_Return
    \/ Q2_Start \/ Q2_Select \/ Q2_Open \/ Q2_Count \/ Q2_Retrieve
    \/ Q2_Query \/ Q2_Generate \/ Q2_Fallback \/ Q2_Resolve \/ Q2_Return

PairSpec == PairInit /\ [][PairNext]_vars

----------------------------------------------------------------------------
(* A get_rag_response call in the web server while the operator runs        *)
(* index_recipes --clear in a shell: two processes on one index directory,  *)
(* each step of one between any two steps of the other.                     *)

\* a request arrives, whatever the command is doing
CQ_Start ==
    /\ q.pc = "idle"
    /\ \E m \in Messages :
           q' = [QIdle EXCEPT !.pc = "select", !.user_message = m]
    /\ UNCHANGED <<QEnv, collExists, index>>

\* the command is started with --clear, whatever the server is doing
CI_Start ==
    /\ ix.pc = "idle"
    /\ ix' = [IxIdle EXCEPT !.pc = "select", !.clear = TRUE,
                            !.before = index]
    /\ UNCHANGED <<IEnv, q, dirExists, collExists, index, prev>>

ClearNext ==
    \/ CQ_Start \/ Q_Select \/ Q_Open \/ Q_Count \/ Q_Retrieve \/ Q_Query
    \/ Q_Generate \/ Q_Fallback \/ Q_Resolve \/ Q_Return
    \/ CI_Start \/ I_Select \/ I_Clear \/ I_Create \/ I_Embed \/ I_Add
    \/ I_Finish

ClearSpec == PairInit /\ [][ClearNext]_vars

----------------------------------------------------------------------------
(* Properties of concurrent calls *)

\* the index as it was when the calls began
StartIndex == IF prev = Indexed THEN IndexOf(corpus, DocumentFn) ELSE <<>>

\* the function a call embeds its query with
QueryFn == IF geminiKey THEN GeminiFn("RETRIEVAL_QUERY") ELSE OpenAIFn

\* what retrieval returns to a call that runs alone and counted call.total
AloneRetrieved(call) ==
    IF Strip(call.user_message) = <<>> \/ call.total = 0 THEN <<>>
    ELSE ToSnippets(CollectionQuery(StartIndex,
                                    EmbedOne(QueryFn, Strip(call.user_message)),
                                    Min(TopN, Len(StartIndex))))

\* the result of a finished call is the one the same call returns alone,
\* from the same table and index and with the same backend answers
ReturnsAsAlone(call) ==
    call.pc = "done" =>
        IF call.why \in NoRagWhy \cup RaisedWhy
        THEN LET f == fallback_answer(call.user_message, corpus)
             IN /\ call.answer = f.answer
                /\ call.retrieved_docs = ResolveTitles(corpus, f.recipe_ids)
                /\ call.confidence =
                       (IF call.why \in RaisedWhy THEN ConfException
                                                  ELSE ConfNoRag)
                /\ call.why = "no_embedding_fn" => ProviderAbsent
                /\ call.why = "no_directory" => ~dirExists
                /\ call.why = "empty_index" => StartIndex = <<>>
        ELSE LET retrieved == AloneRetrieved(call)
             IN /\ call.total \in {0, Len(StartIndex)}
                /\ call.retrieved = retrieved
                /\ \E outcome \in GenOutcomes :
                       LET g == Generate(call.generate_fn, call.user_message,
                                         retrieved, call.base_url, outcome)
                       IN ~g.raised /\ call.answer = g.answer
                /\ call.retrieved_docs = ProjectDocs(retrieved)
                /\ call.confidence = GenConfidence(retrieved)

\* C24: get_rag_response adds, removes and changes no index entry, and
\* calls share nothing else they write: with no command running and the
\* table unedited, in every interleaving of two calls the index stays what
\* it was and each call returns the result it returns when run alone.
C24_ConcurrentQueries ==
    /\ index = StartIndex
    /\ ReturnsAsAlone(q)
    /\ ReturnsAsAlone(q2)

\* one call has returned its hits while the other, which opened the index
\* too, is between its count and its index query
C24_Witness ==
    /\ q.pc = "done" /\ q.confidence = ConfHit
    /\ q2.pc = "query" /\ q2.handle = "live"
    /\ q.user_message /= q2.user_message

\* the call returned the generator's answer after retrieval returned
IsVectorResult ==
    /\ q.why = ""
    /\ q.retrieval = "returned"
    /\ q.answer.kind \in GeneratorKinds
    /\ q.confidence \in {ConfHit, ConfNoHit}

\* C25: a call that runs while index_recipes --clear deletes, re-creates
\* and fills the collection never raises to its caller, wherever the
\* deletion lands: it returns a vector-path result (confidence 0.9 or 0.6)
\* or a keyword-fallback result (confidence 0.6 or 0.5).
C25_NeverRaises ==
    ix.pc /= "idle" =>
        /\ q.pc /= "raised"
        /\ q.pc = "done" =>
               \/ IsVectorResult
               \/ /\ IsFallbackResult
                  /\ q.confidence \in {ConfNoRag, ConfException}

\* C25, as far as the code goes: the only exception that reaches the caller
\* is that of provider construction, and a call whose collection object
\* went stale under it returns one of the two kinds of result.
C25_HoldsOnceSelected ==
    /\ q.pc = "raised" => q.raised = "provider"
    /\ q.pc = "done" =>
           \/ IsVectorResult
           \/ IsFallbackResult /\ q.confidence \in {ConfNoRag, ConfException}

\* the credential the generator of the call reads
GeneratorKey == IF q.generate_fn = "gemini" THEN geminiKey ELSE openaiKey

\* C26: with the credentials unchanged during a call, get_rag_response
\* invokes an answer generator only when the credential of that generator's
\* backend is present; without a credential there is no embedding function
\* and the call goes to the keyword fallback; so the answer is never a
\* generator's 'no API key configured' message.
C26_GeneratorHasCredential ==
    /\ q.gen_calls /= <<>> => GeneratorKey
    /\ q.answer.kind \notin {"no_openai_key", "no_gemini_key"}
    /\ (q.pc = "done" /\ ~geminiKey /\ ~openaiKey) =>
           /\ q.why = "no_embedding_fn"
           /\ q.gen_calls = <<>>
           /\ IsFallbackResult

\* the Gemini generator answered a call while only the Gemini credential
\* is set
C26_Witness ==
    /\ q.pc = "done" /\ q.gen_calls /= <<>>
    /\ q.generate_fn = "gemini" /\ geminiKey /\ ~openaiKey
    /\ q.answer.kind = "generated"

============================================================================
